---- MODULE Spec2Model ----
(***************************************************************************)
(* VisualRWKV (v5.1 and v5.1_old): the multimodal embedding assembler,     *)
(* its truncation policy, the image-span scan orders and the per-layer     *)
(* reordering forward variants, as state machines translated from          *)
(* src/VisualRWKV-v5/v5.1/src/model.py and                                 *)
(* src/VisualRWKV-v5/v5.1_old/src/model.py.                                *)
(*                                                                         *)
(* Conventions.  Python indices are 0-based and are kept 0-based in every  *)
(* index VALUE of the model (image_token_indice, img_start, img_end, scan  *)
(* orders); TLA+ sequences are 1-based, so element p of a Python list is   *)
(* element p+1 of the sequence that models it.  A vector of the embedding  *)
(* space is a triple that records where the vector comes from:             *)
(*   <<"emb", t, 0>>  the embedding-table row of token id t,               *)
(*   <<"img", s, k>>  feature k (0-based) of the image of sample s,        *)
(*   <<"zero", 0, 0>> the all-zero vector.                                 *)
(***************************************************************************)
EXTENDS Integers, Sequences, FiniteSets, TLC

\* ------------------------------------------------------------------------
\* Program constants (dataset.py)
\* ------------------------------------------------------------------------
IGNORE_INDEX == -100
IMAGE_TOKEN_INDEX == -200

\* ------------------------------------------------------------------------
\* Bounds of the model
\* ------------------------------------------------------------------------
\* token ids per batch, all samples together: a batch is a [B, T] tensor,
\* B >= 1 samples of T >= 1 ids each, with B * T ids at most that many
MaxTokens == 6
\* image feature vectors per sample, summary feature included
MaxFeat == 2
\* args.ctx_len
MaxCtx == 2
\* truncate_input on its own: labels of the sample of a one-sample batch
MaxSeq == 12
\* truncate_input on its own: labels per sample of a two-sample batch
MaxPair == 3
\* truncate_input on its own: args.ctx_len
MaxCtxTrunc == 11
\* side of the patch grid of the vision tower
MaxGrid == 4
\* token ids per batch in a forward call of a model with a static scan order
MaxScanTokens == 2
\* image features per sample and trunk blocks in a forward call through the
\* layer loop
MaxTrunkFeat == 6
MaxLayer == 4
\* ContrastiveAlignment: queue_size, batch size of a call, calls in a run
MaxQueue == 3
MaxBatch == 2
MaxCalls == 2
\* generate: token ids of the prompt, args.ctx_len, max_new_tokens
MaxGenPrompt == 2
MaxGenCtx == 4
MaxNew == 3
\* WKV_5.forward: the elements of w lie in -MaxDecay..MaxDecay; C and the
\* head size
MaxDecay == 20
MaxChannels == 4
MaxHeadSize == 2
\* dataset.py: sentences of a conversation, pieces of text of a sentence
MaxTurns == 2
MaxTurnLen == 3
\* freeze_rwkv: calls in a row
MaxFreezeCalls == 3

VARIABLES
    \* ---- assembler: inputs of one preparing_embedding call
    input_ids,      \* samples["input_ids"]: a sequence of token-id sequences
    labels,         \* samples["labels"]: same shape as input_ids
    n_feat,         \* image_features.shape[1]
    ctx_len,        \* args.ctx_len
    \* ---- assembler: the call and what it leaves behind
    pc,             \* "start" | "done"
    ver,            \* which assembler ran: "none" | "v5.1" | "v5.1_old"
    truncate,       \* the truncate argument of the call
    raised,         \* "none" | "ValueError" | "RuntimeError"
    img_start,      \* self.img_start (v5.1)
    img_end,        \* self.img_end (v5.1)
    new_input_embeds,        \* the per-sample list at line 688, before truncation
    new_labels,              \* idem, labels
    truncated_input_embeds,  \* what truncate_input returns (<<>> when not called)
    truncated_labels,        \* idem, labels
    new_input_embeds_padded, \* returned embeddings
    new_labels_padded,       \* returned labels
    image_features,          \* returned image features (v5.1), per sample
    \* ---- configuration (args and the vision tower)
    image_scanning, \* args.image_scanning
    grid_size,      \* args.grid_size
    vit_grid,       \* vit.config.image_size // vit.config.patch_size
    n_layer,        \* args.n_layer
    \* ---- the scanning forward variants
    scan_order,     \* the buffer spiral_order / snake_order / zigzag_order
    x_fwd,          \* x of the forward variants: per sample, per position
    li,             \* index of the next trunk block
    blk_in,         \* what the last block was handed
    blk_out,        \* what the last block returned, before any reordering
    fwd_raised      \* the error a forward variant raised: "none" | ...

asmVars == <<input_ids, labels, n_feat, ctx_len, pc, ver, truncate, raised,
             img_start, img_end, new_input_embeds, new_labels,
             truncated_input_embeds, truncated_labels,
             new_input_embeds_padded, new_labels_padded, image_features>>

asmVars_but_pc == <<input_ids, labels, n_feat, ctx_len, ver, truncate, raised,
                    img_start, img_end, new_input_embeds, new_labels,
                    truncated_input_embeds, truncated_labels,
                    new_input_embeds_padded, new_labels_padded, image_features>>

cfgVars == <<image_scanning, grid_size, vit_grid, n_layer>>

fwdVars == <<scan_order, x_fwd, li, blk_in, blk_out, fwd_raised>>

VARIABLES
    \* ---- ContrastiveAlignment (v5.1_old): the object and its last call
    queue_size,     \* self.queue_size
    reduction,      \* self.reduction
    text_queue,     \* the buffer text_queue: queue_size slots
    vision_queue,   \* the buffer vision_queue: queue_size slots
    queue_ptr,      \* the buffer queue_ptr
    n_calls,        \* forward calls made so far
    cl_text,        \* text_embeds of the last call, as passed
    cl_masks,       \* text_masks of the last call
    cl_vision,      \* vision_embeds of the last call
    cl_raised,      \* what the last call raised: "none" | ...
    cl_loss         \* what the last call returned

queueVars == <<queue_size, reduction, text_queue, vision_queue, queue_ptr,
               n_calls, cl_text, cl_masks, cl_vision, cl_raised, cl_loss>>

VARIABLES
    \* ---- generate: the arguments and the position in the loop
    gen_ver,        \* whose generate runs: "none" | "v5.1" | "v5.1_old"
    do_sample,      \* the argument do_sample
    max_new_tokens, \* the argument max_new_tokens
    stop_token_idx, \* the argument stop_token_idx
    gen_pc,         \* "start" | "loop" | "returned" | "raised"
    gen_i,          \* the loop variable i
    gen_x,          \* x of the one sample: the context of the next step
    generated,      \* the list generated
    trunk_lens,     \* per trunk invocation so far, the length of the
                    \* context it was handed
    gen_raised      \* what generate raised: "none" | ...

genVars == <<gen_ver, do_sample, max_new_tokens, stop_token_idx, gen_pc,
             gen_i, gen_x, generated, trunk_lens, gen_raised>>

VARIABLES
    \* ---- WKV_5.forward: the arguments and what the call does
    HEAD_SIZE,      \* the module constant HEAD_SIZE
    k_C,            \* the argument C
    k_H,            \* the argument H
    k_dtype,        \* the dtype of each of r, k, v, w, u
    k_contig,       \* is_contiguous() of each of r, k, v, w, u
    k_w,            \* the elements of w
    k_pc,           \* "start" | "returned" | "raised"
    k_raised,       \* "none" | "AssertionError"
    k_ctx,          \* the attributes B, T, C, H set on ctx
    k_saved,        \* the tensors given to ctx.save_for_backward
    k_eew,          \* the elements of eew
    k_invoked       \* wkv5_cuda.forward was invoked

kernelVars == <<HEAD_SIZE, k_C, k_H, k_dtype, k_contig, k_w, k_pc, k_raised,
                k_ctx, k_saved, k_eew, k_invoked>>

VARIABLES
    \* ---- dataset.py: one conversation on its way to token ids
    conversations,  \* the list of sentences, each with "from" and "value"
    has_image,      \* 'image' in sample: the argument has_image of preprocess
    d_ctx_len,      \* the argument ctx_len of preprocess
    d_pc,           \* "raw" | "processed" | "done" | "raised"
    d_input_ids,    \* input_ids of the dict preprocess returns
    d_labels,       \* labels of the dict preprocess returns
    d_raised        \* "none" | "ValueError"

dataVars == <<conversations, has_image, d_ctx_len, d_pc, d_input_ids, d_labels, d_raised>>

VARIABLES
    \* ---- freeze_rwkv: requires_grad of the parameters of self.rwkv
    rg_emb,         \* of rwkv.emb
    rg_blocks,      \* of rwkv.blocks[i], one flag for each block
    rg_ln_out,      \* of rwkv.ln_out
    rg_head,        \* of rwkv.head
    fr_calls        \* num_layers_to_freeze of the calls made so far

freezeVars == <<rg_emb, rg_blocks, rg_ln_out, rg_head, fr_calls>>

\* the components beside the model itself
auxVars == <<queueVars, genVars, kernelVars, dataVars, freezeVars>>

vars == <<asmVars, cfgVars, fwdVars, auxVars>>

\* ------------------------------------------------------------------------
\* Python helpers
\* ------------------------------------------------------------------------
Min(a, b) == IF a < b THEN a ELSE b
Max(a, b) == IF a > b THEN a ELSE b

\* s[a:b] for 0 <= a, 0 <= b (Python clamps both to len(s))
Slice(s, a, b) ==
    LET lo == Min(a, Len(s))
        hi == Min(b, Len(s))
    IN  IF hi <= lo THEN <<>> ELSE SubSeq(s, lo + 1, hi)

\* s[:n] for n >= 0
Head_(s, n) == Slice(s, 0, n)

\* s[-n:] for n >= 0.  Python reads -0 as 0, so s[-0:] is the whole of s.
Tail_(s, n) ==
    IF n = 0 THEN s
    ELSE Slice(s, Max(Len(s) - n, 0), Len(s))

\* a sequence of n copies of v
Full(n, v) == [p \in 1..n |-> v]

\* ------------------------------------------------------------------------
\* Vectors
\* ------------------------------------------------------------------------
Emb(t) == <<"emb", t, 0>>
Feat(s, k) == <<"img", s, k>>
ZeroVec == <<"zero", 0, 0>>
\* the vector at position p (0-based) of sample b (0-based) of an embedding
\* list that truncate_input is handed
PosVec(b, p) == <<"pos", b, p>>

\* self.rwkv.emb applied to a sequence of ids
EmbSeq(ids) == [p \in 1..Len(ids) |-> Emb(ids[p])]

\* encode_images: n feature vectors for the image of sample s (0-based s).
\* In v5.1 grid_pooling puts the summary feature last, in v5.1_old first.
encode_images(s, n) == [k \in 1..n |-> Feat(s, k - 1)]

\* (cur_input_ids == IMAGE_TOKEN_INDEX).sum()
num_images(ids) ==
    Cardinality({p \in 1..Len(ids) : ids[p] = IMAGE_TOKEN_INDEX})

\* torch.where(cur_input_ids == IMAGE_TOKEN_INDEX)[0][0], 0-based
image_token_indice(ids) ==
    (CHOOSE p \in 1..Len(ids) :
        /\ ids[p] = IMAGE_TOKEN_INDEX
        /\ \A q \in 1..(p - 1) : ids[q] # IMAGE_TOKEN_INDEX) - 1

\* get_max_image_token_indice: the largest placeholder index among the
\* samples that hold exactly one placeholder, 0 when there is none
RECURSIVE MaxIndiceFrom(_, _, _)
MaxIndiceFrom(ids_batch, idx, acc) ==
    IF idx > Len(ids_batch) THEN acc
    ELSE MaxIndiceFrom(ids_batch, idx + 1,
            IF num_images(ids_batch[idx]) = 1
            THEN Max(acc, image_token_indice(ids_batch[idx]))
            ELSE acc)

get_max_image_token_indice(ids_batch) == MaxIndiceFrom(ids_batch, 1, 0)

\* dst[-n:] = src, a torch slice assignment: the right-hand side must have
\* the length of the slice, or length 1 (it is then broadcast); anything
\* else is a RuntimeError
AssignTailOk(dst, n, src) ==
    Len(src) = Len(Tail_(dst, n)) \/ Len(src) = 1

AssignTail(dst, n, src) ==
    LET k == Len(Tail_(dst, n))
    IN  Head_(dst, Len(dst) - k) \o (IF Len(src) = k THEN src ELSE Full(k, src[1]))

\* ------------------------------------------------------------------------
\* v5.1 preparing_embedding, one iteration of the loop over the samples
\* (s is the 0-based sample index, M is max_image_token_indice, n is
\* image_features.shape[1])
\* ------------------------------------------------------------------------
\* (mutant of ImagePart: the features of a sample without placeholder are
\* not zeroed)
ImagePart_unzeroed(s, ni, n) == encode_images(s, n)

\* lines 659-661 and 673: the image part of sample s, zeroed when the sample
\* holds no placeholder
ImagePart(s, ni, n) ==
    IF ni = 0 THEN Full(n, ZeroVec) ELSE encode_images(s, n)

AssembleSample(s, ids, labs, M, n) ==
    LET ni == num_images(ids)
        cur_new_input_ids == Full(M, 0)
        cur_new_labels == Full(M, IGNORE_INDEX)
        img_labels == Full(n, IGNORE_INDEX)
    IN  IF ni = 0 THEN
            [raised |-> "none",
             x |-> EmbSeq(cur_new_input_ids) \o ImagePart(s, ni, n) \o EmbSeq(ids),
             y |-> cur_new_labels \o img_labels \o labs]
        ELSE IF ni = 1 THEN
            LET i == image_token_indice(ids)
            IN  IF ~AssignTailOk(cur_new_input_ids, i, Head_(ids, i))
                THEN [raised |-> "RuntimeError", x |-> <<>>, y |-> <<>>]
                ELSE [raised |-> "none",
                      x |-> EmbSeq(AssignTail(cur_new_input_ids, i, Head_(ids, i)))
                            \o ImagePart(s, ni, n)
                            \o EmbSeq(Slice(ids, i + 1, Len(ids))),
                      y |-> AssignTail(cur_new_labels, i, Head_(labs, i))
                            \o img_labels
                            \o Slice(labs, i + 1, Len(labs))]
        ELSE [raised |-> "ValueError", x |-> <<>>, y |-> <<>>]

\* the loop: the first sample that raises ends the call
RECURSIVE AssembleLoop(_, _, _, _, _, _, _)
AssembleLoop(ids_batch, labs_batch, M, n, idx, xs, ys) ==
    IF idx > Len(ids_batch) THEN [raised |-> "none", xs |-> xs, ys |-> ys]
    ELSE LET r == AssembleSample(idx - 1, ids_batch[idx], labs_batch[idx], M, n)
         IN  IF r.raised # "none"
             THEN [raised |-> r.raised, xs |-> <<>>, ys |-> <<>>]
             ELSE AssembleLoop(ids_batch, labs_batch, M, n, idx + 1,
                               Append(xs, r.x), Append(ys, r.y))

\* ------------------------------------------------------------------------
\* v5.1_old preparing_embedding, one iteration of the loop
\* ------------------------------------------------------------------------
AssembleSampleOld(s, ids, labs, n) ==
    LET ni == num_images(ids)
    IN  IF ni = 0 THEN [raised |-> "none", x |-> EmbSeq(ids), y |-> labs]
        ELSE IF ni = 1 THEN
            LET i == image_token_indice(ids)
            IN  [raised |-> "none",
                 x |-> EmbSeq(Head_(ids, i)) \o encode_images(s, n)
                       \o EmbSeq(Slice(ids, i + 1, Len(ids))),
                 y |-> Head_(labs, i) \o Full(n, IGNORE_INDEX)
                       \o Slice(labs, i + 1, Len(labs))]
        ELSE [raised |-> "ValueError", x |-> <<>>, y |-> <<>>]

RECURSIVE AssembleLoopOld(_, _, _, _, _, _)
AssembleLoopOld(ids_batch, labs_batch, n, idx, xs, ys) ==
    IF idx > Len(ids_batch) THEN [raised |-> "none", xs |-> xs, ys |-> ys]
    ELSE LET r == AssembleSampleOld(idx - 1, ids_batch[idx], labs_batch[idx], n)
         IN  IF r.raised # "none"
             THEN [raised |-> r.raised, xs |-> <<>>, ys |-> <<>>]
             ELSE AssembleLoopOld(ids_batch, labs_batch, n, idx + 1,
                                  Append(xs, r.x), Append(ys, r.y))

\* ------------------------------------------------------------------------
\* truncate_input (v5.1)
\* ------------------------------------------------------------------------
\* (mutant of valid_labels: the whole label list is searched, not its first
\* ctx_len positions)
valid_labels_anywhere(y, ctx) ==
    SelectSeq(y, LAMBDA l : l # IGNORE_INDEX)

\* [i for i in y[:ctx_len] if i != IGNORE_INDEX]
valid_labels(y, ctx) ==
    SelectSeq(Head_(y, ctx), LAMBDA l : l # IGNORE_INDEX)

\* (mutant of truncate_one: the leading positions are kept whatever the
\* labels are, as v5.1_old does)
truncate_one_leading(x, y, ctx) ==
    [x |-> Head_(x, ctx), y |-> Head_(y, ctx)]

\* one iteration of the loop over zip(new_input_embeds, new_labels)
truncate_one(x, y, ctx) ==
    IF valid_labels(y, ctx) # <<>>
    THEN [x |-> Head_(x, ctx), y |-> Head_(y, ctx)]
    ELSE [x |-> Tail_(x, ctx), y |-> Tail_(y, ctx)]

truncate_input(xs, ys, ctx) ==
    LET n == Min(Len(xs), Len(ys))
    IN  [xs |-> [b \in 1..n |-> truncate_one(xs[b], ys[b], ctx).x],
         ys |-> [b \in 1..n |-> truncate_one(xs[b], ys[b], ctx).y]]

\* v5.1_old: [x[:ctx_len] for x in ...]
truncate_old(xs, ys, ctx) ==
    [xs |-> [b \in 1..Len(xs) |-> Head_(xs[b], ctx)],
     ys |-> [b \in 1..Len(ys) |-> Head_(ys[b], ctx)]]

\* ------------------------------------------------------------------------
\* "Combine them": right-pad to the longest sample of the batch
\* ------------------------------------------------------------------------
RECURSIVE MaxLenFrom(_, _, _)
MaxLenFrom(xs, idx, acc) ==
    IF idx > Len(xs) THEN acc
    ELSE MaxLenFrom(xs, idx + 1, Max(acc, Len(xs[idx])))

PadBatch(xs, ys) ==
    LET max_len == MaxLenFrom(xs, 1, 0)
    IN  [x |-> [b \in 1..Len(xs) |->
                  xs[b] \o Full(max_len - Len(xs[b]), ZeroVec)],
         y |-> [b \in 1..Len(xs) |->
                  ys[b] \o Full(max_len - Len(ys[b]), IGNORE_INDEX)]]

\* ------------------------------------------------------------------------
\* Inputs of the assembler
\* ------------------------------------------------------------------------
\* Token ids: position p (1-based) of a sample holds either the image
\* placeholder or the text token id p, so that a token that moves shows.
SampleIds(n) ==
    {f \in [1..n -> {IMAGE_TOKEN_INDEX} \cup (1..n)] :
        \A p \in 1..n : f[p] \in {IMAGE_TOKEN_INDEX, p}}

\* Labels: the first h positions are ignored (the masked human turn), the
\* others carry a label of their own, 10 + p.
SampleLabels(n) ==
    {[p \in 1..n |-> IF p <= h THEN IGNORE_INDEX ELSE 10 + p] : h \in 0..n}

Samples(n) == {[ids |-> f, labs |-> g] : f \in SampleIds(n), g \in SampleLabels(n)}

\* every batch of 1..total token ids in all: samples["input_ids"] and
\* samples["labels"] are [B, T] tensors, so the B samples of a batch are
\* equally long
Batches(total) ==
    UNION {[1..B -> Samples(T)] :
              <<B, T>> \in {bt \in (1..total) \X (1..total) : bt[1] * bt[2] <= total}}

\* ------------------------------------------------------------------------
\* The assembler as a state machine: one call of preparing_embedding
\* ------------------------------------------------------------------------
\* the variables of the configuration and of the forward variants, where a
\* specification does not use them
CfgIdle ==
    /\ image_scanning = "unidirection"
    /\ grid_size = -1
    /\ vit_grid = 0
    /\ n_layer = 0

FwdIdle ==
    /\ scan_order = <<>>
    /\ x_fwd = <<>>
    /\ li = 0
    /\ blk_in = <<>>
    /\ blk_out = <<>>
    /\ fwd_raised = "none"

\* no cache object
QueueIdle ==
    /\ queue_size = 0
    /\ reduction = "mean"
    /\ text_queue = <<>>
    /\ vision_queue = <<>>
    /\ queue_ptr = 0
    /\ n_calls = 0
    /\ cl_text = <<>>
    /\ cl_masks = <<>>
    /\ cl_vision = <<>>
    /\ cl_raised = "none"
    /\ cl_loss = <<>>

\* no call of generate
GenIdle ==
    /\ gen_ver = "none"
    /\ do_sample = FALSE
    /\ max_new_tokens = 0
    /\ stop_token_idx = 0
    /\ gen_pc = "start"
    /\ gen_i = 0
    /\ gen_x = <<>>
    /\ generated = <<>>
    /\ trunk_lens = <<>>
    /\ gen_raised = "none"

\* no call of the kernel wrapper
KernelIdle ==
    /\ HEAD_SIZE = 0
    /\ k_C = 0
    /\ k_H = 0
    /\ k_dtype = <<>>
    /\ k_contig = <<>>
    /\ k_w = <<>>
    /\ k_pc = "start"
    /\ k_raised = "none"
    /\ k_ctx = <<>>
    /\ k_saved = <<>>
    /\ k_eew = <<>>
    /\ k_invoked = FALSE

\* no conversation
DataIdle ==
    /\ conversations = <<>>
    /\ has_image = FALSE
    /\ d_ctx_len = 0
    /\ d_pc = "raw"
    /\ d_input_ids = <<>>
    /\ d_labels = <<>>
    /\ d_raised = "none"

\* no trunk whose parameters could be frozen
FreezeIdle ==
    /\ rg_emb = TRUE
    /\ rg_blocks = <<>>
    /\ rg_ln_out = TRUE
    /\ rg_head = TRUE
    /\ fr_calls = <<>>

AuxIdle == QueueIdle /\ GenIdle /\ KernelIdle /\ DataIdle /\ FreezeIdle

\* no call of the assembler
AsmIdle ==
    /\ input_ids = <<>>
    /\ labels = <<>>
    /\ n_feat = 0
    /\ ctx_len = 0
    /\ pc = "start"
    /\ ver = "none"
    /\ truncate = FALSE
    /\ raised = "none"
    /\ img_start = -1
    /\ img_end = -1
    /\ new_input_embeds = <<>>
    /\ new_labels = <<>>
    /\ truncated_input_embeds = <<>>
    /\ truncated_labels = <<>>
    /\ new_input_embeds_padded = <<>>
    /\ new_labels_padded = <<>>
    /\ image_features = <<>>

AsmInit ==
    /\ \E b \in Batches(MaxTokens) :
          /\ input_ids = [s \in 1..Len(b) |-> b[s].ids]
          /\ labels = [s \in 1..Len(b) |-> b[s].labs]
    /\ n_feat \in 1..MaxFeat
    /\ ctx_len \in 1..MaxCtx
    /\ pc = "start"
    /\ ver = "none"
    /\ truncate = FALSE
    /\ raised = "none"
    /\ img_start = -1
    /\ img_end = -1
    /\ new_input_embeds = <<>>
    /\ new_labels = <<>>
    /\ truncated_input_embeds = <<>>
    /\ truncated_labels = <<>>
    /\ new_input_embeds_padded = <<>>
    /\ new_labels_padded = <<>>
    /\ image_features = <<>>
    /\ CfgIdle
    /\ FwdIdle
    /\ AuxIdle

\* v5.1: preparing_embedding(samples, truncate=tr).  (Each intermediate
\* value is bound with \E over a singleton, which evaluates it once.)
\* img_start and img_end are attributes of the model object that the call
\* sets before its loop: they keep their new value when the loop raises.
\* what preparing_embedding returns as image_features: the features of every
\* sample the loop went through without placeholder are zeroed in place
ReturnedFeatures(ids_batch, n) ==
    [b \in 1..Len(ids_batch) |-> ImagePart(b - 1, num_images(ids_batch[b]), n)]

\* the body of the call, for n image features per sample
AsmEffect(n, tr) ==
    \E M \in {get_max_image_token_indice(input_ids)} :
    \E r \in {AssembleLoop(input_ids, labels, M, n, 1, <<>>, <<>>)} :
    \E t \in {IF tr THEN truncate_input(r.xs, r.ys, ctx_len)
                   ELSE [xs |-> r.xs, ys |-> r.ys]} :
    \E p \in {PadBatch(t.xs, t.ys)} :
        /\ img_start' = M
        /\ img_end' = M + (n - 1)
        /\ raised' = r.raised
        /\ new_input_embeds' = r.xs
        /\ new_labels' = r.ys
        /\ truncated_input_embeds' = IF tr /\ r.raised = "none" THEN t.xs ELSE <<>>
        /\ truncated_labels' = IF tr /\ r.raised = "none" THEN t.ys ELSE <<>>
        /\ new_input_embeds_padded' = IF r.raised = "none" THEN p.x ELSE <<>>
        /\ new_labels_padded' = IF r.raised = "none" THEN p.y ELSE <<>>
        /\ image_features' = IF r.raised = "none"
                                THEN ReturnedFeatures(input_ids, n) ELSE <<>>
        /\ truncate' = tr

preparing_embedding(tr) ==
    /\ pc = "start"
    /\ AsmEffect(n_feat, tr)
    /\ pc' = "done"
    /\ ver' = "v5.1"
    /\ UNCHANGED <<input_ids, labels, n_feat, ctx_len, cfgVars, auxVars, fwdVars>>

\* v5.1_old: preparing_embedding(samples, image_features, truncate=tr)
AsmEffectOld(n, tr) ==
    /\ \E r \in {AssembleLoopOld(input_ids, labels, n, 1, <<>>, <<>>)} :
       \E t \in {IF tr THEN truncate_old(r.xs, r.ys, ctx_len)
                      ELSE [xs |-> r.xs, ys |-> r.ys]} :
       \E p \in {PadBatch(t.xs, t.ys)} :
           /\ raised' = r.raised
           /\ new_input_embeds' = r.xs
           /\ new_labels' = r.ys
           /\ truncated_input_embeds' = IF tr /\ r.raised = "none" THEN t.xs ELSE <<>>
           /\ truncated_labels' = IF tr /\ r.raised = "none" THEN t.ys ELSE <<>>
           /\ new_input_embeds_padded' = IF r.raised = "none" THEN p.x ELSE <<>>
           /\ new_labels_padded' = IF r.raised = "none" THEN p.y ELSE <<>>
    /\ truncate' = tr

preparing_embedding_old(tr) ==
    /\ pc = "start"
    /\ AsmEffectOld(n_feat, tr)
    /\ pc' = "done"
    /\ ver' = "v5.1_old"
    /\ UNCHANGED <<input_ids, labels, n_feat, ctx_len, img_start, img_end,
                   image_features, cfgVars, auxVars, fwdVars>>

\* the call of forward (v5.1 line 402, v5.1_old line 399): truncate is left
\* at its default, True
CallNew == preparing_embedding(TRUE)
CallOld == preparing_embedding_old(TRUE)

AsmNext == CallNew \/ CallOld

Init == AsmInit
Next == AsmNext
Spec == Init /\ [][Next]_vars

\* ------------------------------------------------------------------------
\* truncate_input on its own: a call on arbitrary label lists.  The lists
\* it is handed are new_input_embeds and new_labels, its result is
\* truncated_input_embeds and truncated_labels.
\* ------------------------------------------------------------------------
\* a label is the ignore marker or a label proper (7)
LabelSeqs(n) == UNION {[1..k -> {IGNORE_INDEX, 7}] : k \in 1..n}

TruncLabelBatches ==
    {<<y>> : y \in LabelSeqs(MaxSeq)}
    \cup {<<y1, y2>> : y1 \in LabelSeqs(MaxPair), y2 \in LabelSeqs(MaxPair)}

TruncInit ==
    /\ new_labels \in TruncLabelBatches
    /\ new_input_embeds =
          [b \in 1..Len(new_labels) |->
              [p \in 1..Len(new_labels[b]) |-> PosVec(b - 1, p - 1)]]
    /\ ctx_len \in 1..MaxCtxTrunc
    /\ pc = "start"
    /\ ver = "none"
    /\ input_ids = <<>>
    /\ labels = <<>>
    /\ n_feat = 0
    /\ truncate = TRUE
    /\ raised = "none"
    /\ img_start = -1
    /\ img_end = -1
    /\ truncated_input_embeds = <<>>
    /\ truncated_labels = <<>>
    /\ new_input_embeds_padded = <<>>
    /\ new_labels_padded = <<>>
    /\ image_features = <<>>
    /\ CfgIdle
    /\ FwdIdle
    /\ AuxIdle

truncate_input_call ==
    /\ pc = "start"
    /\ \E t \in {truncate_input(new_input_embeds, new_labels, ctx_len)} :
          /\ truncated_input_embeds' = t.xs
          /\ truncated_labels' = t.ys
    /\ pc' = "done"
    /\ ver' = "truncate_input"
    /\ UNCHANGED <<input_ids, labels, n_feat, ctx_len, truncate, raised,
                   img_start, img_end, new_input_embeds, new_labels,
                   new_input_embeds_padded, new_labels_padded, image_features,
                   cfgVars, auxVars, fwdVars>>

TruncNext == truncate_input_call

SpecTrunc == TruncInit /\ [][TruncNext]_vars

\* ------------------------------------------------------------------------
\* The scan orders (v5.1 lines 767-844).  matrix is
\* torch.arange(rows * cols).reshape(rows, cols): its entry (row, col) is
\* row * n + col.
\* ------------------------------------------------------------------------
matrix(n, row, col) == row * n + col

\* range(a, b) and range(a, b, -1) as lists
RangeUp(a, b) == [j \in 1..Max(b - a, 0) |-> a + j - 1]
RangeDown(a, b) == [j \in 1..Max(a - b, 0) |-> a - j + 1]

\* (mutant of SpiralRing: the right column is walked from the top row, not
\* from the row below it)
SpiralRing_corner_twice(n, left, right, top, bottom) ==
    LET cols1 == RangeUp(left, right + 1)
        rows1 == RangeUp(top, bottom + 1)
        cols2 == RangeDown(right - 1, left)
        rows2 == RangeDown(bottom, top)
    IN  [j \in 1..Len(cols1) |-> matrix(n, top, cols1[j])]
        \o [j \in 1..Len(rows1) |-> matrix(n, rows1[j], right)]
        \o (IF left < right /\ top < bottom
            THEN [j \in 1..Len(cols2) |-> matrix(n, bottom, cols2[j])]
                 \o [j \in 1..Len(rows2) |-> matrix(n, rows2[j], left)]
            ELSE <<>>)

\* get_spiral_scan_order, one pass of the while loop (lines 773-781): what it
\* appends to order
SpiralRing(n, left, right, top, bottom) ==
    LET cols1 == RangeUp(left, right + 1)
        rows1 == RangeUp(top + 1, bottom + 1)
        cols2 == RangeDown(right - 1, left)
        rows2 == RangeDown(bottom, top)
    IN  [j \in 1..Len(cols1) |-> matrix(n, top, cols1[j])]
        \o [j \in 1..Len(rows1) |-> matrix(n, rows1[j], right)]
        \o (IF left < right /\ top < bottom
            THEN [j \in 1..Len(cols2) |-> matrix(n, bottom, cols2[j])]
                 \o [j \in 1..Len(rows2) |-> matrix(n, rows2[j], left)]
            ELSE <<>>)

RECURSIVE SpiralLoop(_, _, _, _, _, _)
SpiralLoop(n, left, right, top, bottom, order) ==
    IF left <= right /\ top <= bottom
    THEN SpiralLoop(n, left + 1, right - 1, top + 1, bottom - 1,
                    order \o SpiralRing(n, left, right, top, bottom))
    ELSE order

get_spiral_scan_order(n) == SpiralLoop(n, 0, n - 1, 0, n - 1, <<>>)

\* (mutant of SnakeRow: every row left to right)
SnakeRow_row_major(n, i) == [j \in 1..n |-> matrix(n, i, j - 1)]

\* get_snake_scan_order: row i left to right when i is even, right to left
\* when i is odd
SnakeRow(n, i) ==
    LET cols == IF i % 2 = 0 THEN RangeUp(0, n) ELSE RangeDown(n - 1, -1)
    IN  [j \in 1..Len(cols) |-> matrix(n, i, cols[j])]

RECURSIVE SnakeLoop(_, _, _)
SnakeLoop(n, i, order) ==
    IF i < n THEN SnakeLoop(n, i + 1, order \o SnakeRow(n, i)) ELSE order

get_snake_scan_order(n) == SnakeLoop(n, 0, <<>>)

\* get_zigzag_scan_order: the two inner while loops
RECURSIVE ZigzagUp(_, _, _, _)
ZigzagUp(n, row, col, order) ==
    IF row >= 0 /\ col < n
    THEN ZigzagUp(n, row - 1, col + 1, Append(order, matrix(n, row, col)))
    ELSE order

RECURSIVE ZigzagDown(_, _, _, _)
ZigzagDown(n, row, col, order) ==
    IF row < n /\ col >= 0
    THEN ZigzagDown(n, row + 1, col - 1, Append(order, matrix(n, row, col)))
    ELSE order

\* the loop over i in range(rows + cols - 1)
RECURSIVE ZigzagLoop(_, _, _, _)
ZigzagLoop(n, i, going_up, order) ==
    IF i >= n + n - 1 THEN order
    ELSE ZigzagLoop(n, i + 1, ~going_up,
            IF going_up
            THEN (IF i < n THEN ZigzagUp(n, i, 0, order)
                           ELSE ZigzagUp(n, n - 1, i - (n - 1), order))
            ELSE (IF i < n THEN ZigzagDown(n, 0, i, order)
                           ELSE ZigzagDown(n, i - (n - 1), n - 1, order)))

get_zigzag_scan_order(n) == ZigzagLoop(n, 0, TRUE, <<>>)

StaticModes == {"spiral", "snake", "zigzag"}

\* ------------------------------------------------------------------------
\* grid_pooling (v5.1 lines 599-617) on the 1 + n*n features of the vision
\* tower (feature 0 is the summary feature, feature 1 + row * n + col is the
\* patch at (row, col)).  A returned feature is given as the set of tower
\* features it is the mean of.
\* ------------------------------------------------------------------------
IntSqrt(m) == CHOOSE r \in 0..m : r * r <= m /\ (r + 1) * (r + 1) > m

PoolCell(n, stride, r, c) ==
    {1 + matrix(n, r * stride + a, c * stride + b) :
        a \in 0..(stride - 1), b \in 0..(stride - 1)}

grid_pooling(n, g) ==
    LET cls_features == <<{0}>>
        patches == [k \in 1..(n * n) |-> {k}]
        H_or_W == IntSqrt(n * n)
        grid_stride == IF g = 0 THEN 0 ELSE H_or_W \div g
        out == IF grid_stride = 0 THEN 0
               ELSE ((H_or_W - grid_stride) \div grid_stride) + 1
    IN  IF g = -1 THEN [raised |-> "none", feats |-> patches \o cls_features]
        ELSE IF g = 0 THEN [raised |-> "none", feats |-> cls_features]
        ELSE IF g = 1 THEN
            [raised |-> "none", feats |-> <<1..(n * n)>> \o cls_features]
        ELSE IF grid_stride <= 0 THEN
            \* F.avg_pool2d refuses a kernel size and stride of 0
            [raised |-> "RuntimeError", feats |-> <<>>]
        ELSE [raised |-> "none",
              feats |-> [k \in 1..(out * out) |->
                            PoolCell(H_or_W, grid_stride,
                                     (k - 1) \div out, (k - 1) % out)]
                        \o cls_features]

\* ------------------------------------------------------------------------
\* The static scan orders in forward: spiral_forward, snake_forward and
\* zigzag_forward (lines 515-573) are the same code but for the buffer.
\* ------------------------------------------------------------------------
\* row[s:e] = src under torch's rules (src of the slice's length, or of
\* length 1 and broadcast)
SliceAssignOk(row, s, e, src) ==
    Len(src) = Len(Slice(row, s, e)) \/ Len(src) = 1

SliceAssign(row, s, e, src) ==
    LET lo == Min(s, Len(row))
        k == Len(Slice(row, s, e))
    IN  Head_(row, lo)
        \o (IF Len(src) = k THEN src ELSE Full(k, src[1]))
        \o Slice(row, lo + k, Len(row))

\* x_emb[:, :-1][:, order] for one sample: torch refuses an index that is
\* not below the number of features
IndexOk(feats, order) ==
    \A j \in 1..Len(order) : order[j] < Len(feats) - 1 /\ order[j] >= 1 - Len(feats)

TakeInOrder(feats, order) ==
    [j \in 1..Len(order) |-> feats[order[j] + 1]]

static_forward(xp, x_emb, order, s, e) ==
    IF \E b \in 1..Len(x_emb) : ~IndexOk(x_emb[b], order)
    THEN [raised |-> "IndexError", x |-> <<>>]
    ELSE IF \E b \in 1..Len(xp) :
                ~SliceAssignOk(xp[b], s, e, TakeInOrder(x_emb[b], order))
    THEN [raised |-> "RuntimeError", x |-> <<>>]
    ELSE [raised |-> "none",
          x |-> [b \in 1..Len(xp) |->
                    SliceAssign(xp[b], s, e, TakeInOrder(x_emb[b], order))]]

\* a context window no merged sequence of the model exceeds
AmpleCtx == MaxTokens + MaxGrid * MaxGrid + 1

ScanInit ==
    /\ image_scanning \in StaticModes
    /\ vit_grid \in 1..MaxGrid
    /\ grid_size \in (-1)..MaxGrid
    /\ n_layer = 0
    /\ \E b \in Batches(MaxScanTokens) :
          /\ input_ids = [s \in 1..Len(b) |-> b[s].ids]
          /\ labels = [s \in 1..Len(b) |-> b[s].labs]
    /\ ctx_len \in {MaxCtx, AmpleCtx}
    /\ n_feat = 0
    /\ pc = "start"
    /\ ver = "none"
    /\ truncate = FALSE
    /\ raised = "none"
    /\ img_start = -1
    /\ img_end = -1
    /\ new_input_embeds = <<>>
    /\ new_labels = <<>>
    /\ truncated_input_embeds = <<>>
    /\ truncated_labels = <<>>
    /\ new_input_embeds_padded = <<>>
    /\ new_labels_padded = <<>>
    /\ image_features = <<>>
    /\ FwdIdle
    /\ AuxIdle

\* VisualRWKV.__init__ (lines 348-356): the order is computed from the patch
\* grid of the vision tower
Construct ==
    /\ pc = "start"
    /\ scan_order' =
          IF image_scanning = "spiral" THEN get_spiral_scan_order(vit_grid)
          ELSE IF image_scanning = "snake" THEN get_snake_scan_order(vit_grid)
          ELSE IF image_scanning = "zigzag" THEN get_zigzag_scan_order(vit_grid)
          ELSE <<>>
    /\ pc' = "constructed"
    /\ UNCHANGED <<asmVars_but_pc, cfgVars, auxVars, x_fwd, li, blk_in, blk_out, fwd_raised>>

\* forward (lines 401-417) of a model whose image_scanning is spiral, snake
\* or zigzag: preparing_embedding, in which encode_images pools the features
\* of the tower, then the static reordering of the span.  The trunk blocks
\* that follow move nothing.
forward_static ==
    /\ pc = "constructed"
    /\ image_scanning \in StaticModes
    /\ \E gp \in {grid_pooling(vit_grid, grid_size)} :
          IF gp.raised # "none"
          THEN /\ fwd_raised' = gp.raised
               /\ x_fwd' = <<>>
               /\ UNCHANGED <<n_feat, truncate, raised, img_start, img_end,
                              new_input_embeds, new_labels,
                              truncated_input_embeds, truncated_labels,
                              new_input_embeds_padded, new_labels_padded,
                              image_features>>
          ELSE /\ n_feat' = Len(gp.feats)
               /\ AsmEffect(Len(gp.feats), TRUE)
               /\ IF raised' # "none"
                  THEN fwd_raised' = "none" /\ x_fwd' = <<>>
                  ELSE \E r \in {static_forward(new_input_embeds_padded',
                                                image_features', scan_order,
                                                img_start', img_end')} :
                          fwd_raised' = r.raised /\ x_fwd' = r.x
    /\ pc' = "done"
    /\ ver' = "v5.1"
    /\ UNCHANGED <<input_ids, labels, ctx_len, cfgVars, auxVars, scan_order, li,
                   blk_in, blk_out>>

ScanNext == Construct \/ forward_static

SpecScan == ScanInit /\ [][ScanNext]_vars

\* ------------------------------------------------------------------------
\* The layer loops: unidirectional_forward, bidirectional_forward,
\* multidirectional_forward and rotational_forward (lines 419-513).  A trunk
\* block is opaque: what block i returns at position p of sample b is the
\* vector <<"blk", i, b, p>>, and blk_in keeps the sequence it was given.
\* ------------------------------------------------------------------------
TrunkModes == {"unidirection", "bidirection", "multidirection", "rotation"}

BlockOut(i, x) ==
    [b \in 1..Len(x) |-> [p \in 1..Len(x[b]) |-> <<"blk", i, b - 1, p - 1>>]]

\* x[:, img_start:img_end, :] as the list of its samples
SpanOf(x, s, e) == [b \in 1..Len(x) |-> Slice(x[b], s, e)]

\* x[:, img_start:img_end, :] = src
SetSpan(x, s, e, src) == [b \in 1..Len(x) |-> SliceAssign(x[b], s, e, src[b])]

\* tensor.flip(1)
Flip(seq) == [j \in 1..Len(seq) |-> seq[Len(seq) + 1 - j]]

FlipSpan(x, s, e) ==
    SetSpan(x, s, e, [b \in 1..Len(x) |-> Flip(Slice(x[b], s, e))])

\* .view(B, H, W, C) wants B * H * W * C elements
ViewOk(x, s, e, H) == \A b \in 1..Len(x) : Len(Slice(x[b], s, e)) = H * H

\* (mutant of Transpose: the grid is mirrored at its other diagonal)
Transpose_anti(seq, H) ==
    [j \in 1..(H * H) |->
        seq[(H - 1 - ((j - 1) % H)) * H + (H - 1 - ((j - 1) \div H)) + 1]]

\* .view(B, H, W, C).transpose(1, 2).contiguous().view(B, H*W, C)
Transpose(seq, H) ==
    [j \in 1..(H * H) |-> seq[((j - 1) % H) * H + ((j - 1) \div H) + 1]]

TransposeSpan(x, s, e, H) ==
    SetSpan(x, s, e, [b \in 1..Len(x) |-> Transpose(Slice(x[b], s, e), H)])

do_transpose(i) == i % 4 >= 2

\* (mutant of do_reverse: the even blocks are the reversed ones)
do_reverse_even(i) == i % 2 = 0

do_reverse(i) == i % 2 = 1

\* tensor[:-n] for n >= 0: Python reads -0 as 0, so tensor[:-0] is empty
DropLast(tensor, n) ==
    IF n = 0 THEN <<>> ELSE Head_(tensor, Max(Len(tensor) - n, 0))

\* rotate_tensor (lines 740-765): tensor is the list along its first
\* dimension
rotate_tensor(tensor, distance) ==
    IF distance = 0 THEN tensor
    ELSE LET length == Len(tensor)
             d == distance % length
         IN  Tail_(tensor, d) \o DropLast(tensor, d)

\* a selector that is none of the seven that forward tests for
UnsupportedModes == {"hilbert"}

LayersInit ==
    /\ image_scanning \in TrunkModes \cup UnsupportedModes
    /\ grid_size = -1
    /\ vit_grid = 0
    /\ n_layer \in 1..MaxLayer
    /\ n_feat \in 1..MaxTrunkFeat
    /\ \E b \in Batches(MaxScanTokens) :
          /\ input_ids = [s \in 1..Len(b) |-> b[s].ids]
          /\ labels = [s \in 1..Len(b) |-> b[s].labs]
    /\ ctx_len \in {MaxCtx, AmpleCtx}
    /\ pc = "start"
    /\ ver = "none"
    /\ truncate = FALSE
    /\ raised = "none"
    /\ img_start = -1
    /\ img_end = -1
    /\ new_input_embeds = <<>>
    /\ new_labels = <<>>
    /\ truncated_input_embeds = <<>>
    /\ truncated_labels = <<>>
    /\ new_input_embeds_padded = <<>>
    /\ new_labels_padded = <<>>
    /\ image_features = <<>>
    /\ FwdIdle
    /\ AuxIdle

\* forward (lines 401-410) up to the layer loop: preparing_embedding
forward_begin ==
    /\ pc = "constructed"
    /\ image_scanning \in TrunkModes
    /\ AsmEffect(n_feat, TRUE)
    /\ IF raised' # "none"
       THEN pc' = "raised" /\ x_fwd' = <<>>
       ELSE pc' = "trunk" /\ x_fwd' = new_input_embeds_padded'
    /\ li' = 0
    /\ ver' = "v5.1"
    /\ UNCHANGED <<input_ids, labels, n_feat, ctx_len, cfgVars, auxVars, scan_order,
                   blk_in, blk_out, fwd_raised>>

\* forward (lines 401-417) of a model whose image_scanning is none of the
\* seven selectors: preparing_embedding runs (line 402), none of the tests of
\* lines 403-416 holds, and line 417 reads logits, which was never bound
forward_unsupported ==
    /\ pc = "constructed"
    /\ image_scanning \notin (TrunkModes \cup StaticModes)
    /\ AsmEffect(n_feat, TRUE)
    /\ fwd_raised' = IF raised' # "none" THEN "none" ELSE "UnboundLocalError"
    /\ x_fwd' = IF raised' # "none" THEN <<>> ELSE new_input_embeds_padded'
    /\ pc' = "raised"
    /\ ver' = "v5.1"
    /\ UNCHANGED <<input_ids, labels, n_feat, ctx_len, cfgVars, auxVars, scan_order,
                   li, blk_in, blk_out>>

InLoop(mode) == pc = "trunk" /\ image_scanning = mode /\ li < n_layer

\* one pass of the loop of unidirectional_forward (lines 425-429)
unidirectional_block ==
    /\ InLoop("unidirection")
    /\ blk_in' = x_fwd
    /\ blk_out' = BlockOut(li, x_fwd)
    /\ x_fwd' = blk_out'
    /\ li' = li + 1
    /\ UNCHANGED <<asmVars, cfgVars, auxVars, scan_order, fwd_raised>>

\* one pass of the loop of bidirectional_forward (lines 443-454)
bidirectional_block ==
    /\ InLoop("bidirection")
    /\ \E x1 \in {IF do_reverse(li) THEN FlipSpan(x_fwd, img_start, img_end)
                                   ELSE x_fwd} :
       \E out \in {BlockOut(li, x1)} :
          /\ blk_in' = x1
          /\ blk_out' = out
          /\ x_fwd' = IF do_reverse(li) THEN FlipSpan(out, img_start, img_end)
                                        ELSE out
    /\ li' = li + 1
    /\ UNCHANGED <<asmVars, cfgVars, auxVars, scan_order, fwd_raised>>

\* one pass of the loop of multidirectional_forward (lines 470-486), with
\* H = W = int((img_end - img_start) ** 0.5) of line 465
multidirectional_block ==
    /\ InLoop("multidirection")
    /\ \E H \in {IntSqrt(Max(img_end - img_start, 0))} :
          IF do_transpose(li) /\ ~ViewOk(x_fwd, img_start, img_end, H)
          THEN /\ fwd_raised' = "RuntimeError"
               /\ pc' = "raised"
               /\ UNCHANGED <<x_fwd, blk_in, blk_out, li>>
          ELSE \E x1 \in {IF do_transpose(li)
                          THEN TransposeSpan(x_fwd, img_start, img_end, H)
                          ELSE x_fwd} :
               \E x2 \in {IF do_reverse(li)
                          THEN FlipSpan(x1, img_start, img_end) ELSE x1} :
               \E out \in {BlockOut(li, x2)} :
               \E y1 \in {IF do_reverse(li)
                          THEN FlipSpan(out, img_start, img_end) ELSE out} :
                  /\ blk_in' = x2
                  /\ blk_out' = out
                  /\ x_fwd' = IF do_transpose(li)
                              THEN TransposeSpan(y1, img_start, img_end, H)
                              ELSE y1
                  /\ li' = li + 1
                  /\ UNCHANGED <<pc, fwd_raised>>
    /\ UNCHANGED <<asmVars_but_pc, cfgVars, auxVars, scan_order>>

\* one pass of the loop of rotational_forward (lines 501-507), with
\* rotate_distance of line 497
rotational_block ==
    /\ InLoop("rotation")
    /\ \E rotate_distance \in {(img_end - img_start) \div 3} :
       \E out \in {BlockOut(li, x_fwd)} :
          /\ blk_in' = x_fwd
          /\ blk_out' = out
          /\ x_fwd' = SetSpan(out, img_start, img_end,
                              rotate_tensor(SpanOf(out, img_start, img_end),
                                            rotate_distance))
    /\ li' = li + 1
    /\ UNCHANGED <<asmVars, cfgVars, auxVars, scan_order, fwd_raised>>

\* ln_out and head after the loop: they work position by position
head ==
    /\ pc = "trunk"
    /\ li = n_layer
    /\ pc' = "done"
    /\ UNCHANGED <<asmVars_but_pc, cfgVars, auxVars, fwdVars>>

LayersNext ==
    \/ Construct
    \/ forward_begin
    \/ forward_unsupported
    \/ unidirectional_block
    \/ bidirectional_block
    \/ multidirectional_block
    \/ rotational_block
    \/ head

SpecLayers == LayersInit /\ [][LayersNext]_vars

\* ------------------------------------------------------------------------
\* ContrastiveAlignment (v5.1_old lines 551-635).  Embedding vectors are
\* symbolic: <<"txt", c, b, t>> is the text embedding at position t of sample
\* b of call c, <<"vis", c, b, v>> the vision embedding; a masked or never
\* written vector is ZeroVec.  A pooled feature is kept as the vectors it is
\* a combination of and the number it is divided by.
\* ------------------------------------------------------------------------
\* text_max_len and vision_max_len of the object
TextMaxLen == 2
VisionMaxLen == 1

\* "max" stands for a selector pool_features does not know
Reductions == {"mean", "weighted", "max"}

TextVec(c, b, t) == <<"txt", c, b, t>>
VisVec(c, b, v) == <<"vis", c, b, v>>

\* ContrastiveAlignment.__init__ lines 561-563
ZeroQueue(size, len) == [i \in 1..size |-> Full(len, ZeroVec)]

\* text_embeds * text_masks.unsqueeze(-1)
MaskedText(text, masks) ==
    [b \in 1..Len(text) |->
        [t \in 1..Len(text[b]) |-> IF masks[b][t] THEN text[b][t] ELSE ZeroVec]]

\* torch.ones_like(text_embeds[..., 0], dtype=torch.bool)
OnesLike(text) == [b \in 1..Len(text) |-> [t \in 1..Len(text[b]) |-> TRUE]]

\* text_masks.sum(dim=-1)
MaskSum(row) == Cardinality({t \in 1..Len(row) : row[t]})

\* pool_features (lines 565-581).  mean: the sum over the positions divided
\* by the number of unmasked positions (text) or by the number of positions
\* (vision).  weighted: a softmax-weighted sum, the weights sum to one.
pool_features(text_embeds, vision_features, text_masks, red) ==
    IF red = "mean"
    THEN [raised |-> "none",
          text |-> [b \in 1..Len(text_embeds) |->
                      [terms |-> text_embeds[b], den |-> MaskSum(text_masks[b])]],
          vision |-> [b \in 1..Len(vision_features) |->
                      [terms |-> vision_features[b],
                       den |-> Len(vision_features[b])]]]
    ELSE IF red = "weighted"
    THEN [raised |-> "none",
          text |-> [b \in 1..Len(text_embeds) |->
                      [terms |-> text_embeds[b], den |-> 1]],
          vision |-> [b \in 1..Len(vision_features) |->
                      [terms |-> vision_features[b], den |-> 1]]]
    ELSE [raised |-> "ValueError", text |-> <<>>, vision |-> <<>>]

\* a pooled feature is a number: x / 0 is inf or nan in floating point
PooledFinite(pooled) == \A b \in 1..Len(pooled) : pooled[b].den # 0

\* compute_in_batch_constraive_loss (lines 583-593): whether it raises and
\* whether the loss is finite
compute_in_batch_constraive_loss(text_embeds, vision_features, text_masks, red) ==
    LET p == pool_features(text_embeds, vision_features, text_masks, red)
    IN  [raised |-> p.raised,
         finite |-> p.raised = "none" /\ PooledFinite(p.text)
                    /\ PooledFinite(p.vision)]

\* compute_in_queue_constraive_loss (lines 595-611)
compute_in_queue_constraive_loss(text_embeds, vision_features, text_masks, text_neg_embeds, vision_neg_features, red) ==
    LET p == pool_features(text_embeds, vision_features, text_masks, red)
        q == pool_features(text_neg_embeds, vision_neg_features,
                           OnesLike(text_neg_embeds), red)
    IN  [raised |-> IF p.raised # "none" THEN p.raised ELSE q.raised,
         finite |-> /\ p.raised = "none" /\ q.raised = "none"
                    /\ PooledFinite(p.text) /\ PooledFinite(p.vision)
                    /\ PooledFinite(q.text) /\ PooledFinite(q.vision)]

\* (mutant of Negatives: the queues are read after the first sample of the
\* batch was written at the pointer)
Negatives_after_write(text_embeds, vision_embeds) ==
    [text |-> [i \in 1..Len(text_queue) |->
                 IF i = queue_ptr + 1 THEN text_embeds[1] ELSE text_queue[i]],
     vision |-> [i \in 1..Len(vision_queue) |->
                 IF i = queue_ptr + 1 THEN vision_embeds[1] ELSE vision_queue[i]]]

\* lines 619 and 622: the negatives are clones of the queues, taken before
\* the loss and before the queues are written
Negatives(text_embeds, vision_embeds) ==
    [text |-> text_queue, vision |-> vision_queue]

\* (mutant of ComputeLoss: the in-batch term is never computed)
ComputeLoss_in_queue_only(text_embeds, vision_features, text_masks, red) ==
    LET neg == Negatives(text_embeds, vision_features)
        in_queue == compute_in_queue_constraive_loss(
                        text_embeds, vision_features, text_masks,
                        neg.text, neg.vision, red)
    IN  [raised |-> in_queue.raised,
         terms |-> {"in_queue"},
         negatives |-> neg,
         finite |-> in_queue.finite]

\* lines 624-630: the loss of a call
ComputeLoss(text_embeds, vision_features, text_masks, red) ==
    LET batch_size == Len(text_embeds)
        neg == Negatives(text_embeds, vision_features)
        in_queue == compute_in_queue_constraive_loss(
                        text_embeds, vision_features, text_masks,
                        neg.text, neg.vision, red)
        in_batch == compute_in_batch_constraive_loss(
                        text_embeds, vision_features, text_masks, red)
    IN  IF batch_size # 1
        THEN [raised |-> IF in_batch.raised # "none" THEN in_batch.raised
                         ELSE in_queue.raised,
              terms |-> {"in_batch", "in_queue"},
              negatives |-> neg,
              finite |-> in_batch.finite /\ in_queue.finite]
        ELSE [raised |-> in_queue.raised,
              terms |-> {"in_queue"},
              negatives |-> neg,
              finite |-> in_queue.finite]

\* queue[ptr:ptr+batch_size, :] = src under torch's rules: the slice stops at
\* the end of the queue, and src must have its shape up to broadcasting
QueueAssignOk(queue, ptr, src) ==
    LET k == Len(Slice(queue, ptr, ptr + Len(src)))
    IN  /\ Len(src) = k \/ Len(src) = 1
        /\ \A i \in 1..k : \A b \in 1..Len(src) :
              Len(src[b]) = Len(queue[ptr + i]) \/ Len(src[b]) = 1

QueueAssign(queue, ptr, src) ==
    LET k == Len(Slice(queue, ptr, ptr + Len(src)))
    IN  [i \in 1..Len(queue) |->
            IF i > ptr /\ i <= ptr + k
            THEN LET row == IF Len(src) = k THEN src[i - ptr] ELSE src[1]
                 IN  IF Len(row) = Len(queue[i]) THEN row
                     ELSE Full(Len(queue[i]), row[1])
            ELSE queue[i]]

\* (mutant of NextPtr: the pointer is not wrapped)
NextPtr_unwrapped(ptr, batch_size, size) == ptr + batch_size

\* line 634
NextPtr(ptr, batch_size, size) == (ptr + batch_size) % size

\* ContrastiveAlignment.forward (lines 613-635)
forward_result(text_embeds_arg, vision_embeds, text_masks) ==
    LET batch_size == Len(text_embeds_arg)
        text_embeds == MaskedText(text_embeds_arg, text_masks)
        loss == ComputeLoss(text_embeds, vision_embeds, text_masks, reduction)
        same == [raised |-> "none", loss |-> <<>>, text_queue |-> text_queue,
                 vision_queue |-> vision_queue, queue_ptr |-> queue_ptr]
    IN  IF loss.raised # "none"
        THEN [same EXCEPT !.raised = loss.raised]
        ELSE IF ~QueueAssignOk(text_queue, queue_ptr, text_embeds)
        THEN [same EXCEPT !.raised = "RuntimeError"]
        ELSE IF ~QueueAssignOk(vision_queue, queue_ptr, vision_embeds)
        THEN [same EXCEPT !.raised = "RuntimeError",
                          !.text_queue = QueueAssign(text_queue, queue_ptr,
                                                     text_embeds)]
        ELSE [raised |-> "none",
              loss |-> [terms |-> loss.terms, finite |-> loss.finite,
                        negatives |-> loss.negatives],
              text_queue |-> QueueAssign(text_queue, queue_ptr, text_embeds),
              vision_queue |-> QueueAssign(vision_queue, queue_ptr,
                                           vision_embeds),
              queue_ptr |-> NextPtr(queue_ptr, batch_size, queue_size)]

\* the masks of right-padded samples of length len
MaskRows(len) == {[t \in 1..len |-> t <= k] : k \in 0..len}

\* the arguments of a call: text of the length of the queue slots with any
\* masks, or text or vision embeddings one position longer than the slots
CallArgs(c) ==
    UNION {
        {[text |-> [b \in 1..B |-> [t \in 1..TextMaxLen |-> TextVec(c, b - 1, t - 1)]],
          vision |-> [b \in 1..B |-> [v \in 1..VisionMaxLen |-> VisVec(c, b - 1, v - 1)]],
          masks |-> mk] : mk \in [1..B -> MaskRows(TextMaxLen)]}
        \cup
        {[text |-> [b \in 1..B |-> [t \in 1..(TextMaxLen + 1) |-> TextVec(c, b - 1, t - 1)]],
          vision |-> [b \in 1..B |-> [v \in 1..VisionMaxLen |-> VisVec(c, b - 1, v - 1)]],
          masks |-> [b \in 1..B |-> [t \in 1..(TextMaxLen + 1) |-> TRUE]]],
         [text |-> [b \in 1..B |-> [t \in 1..TextMaxLen |-> TextVec(c, b - 1, t - 1)]],
          vision |-> [b \in 1..B |-> [v \in 1..(VisionMaxLen + 1) |-> VisVec(c, b - 1, v - 1)]],
          masks |-> [b \in 1..B |-> [t \in 1..TextMaxLen |-> TRUE]]]}
        : B \in 1..MaxBatch}

QueueInit ==
    /\ queue_size \in 1..MaxQueue
    /\ reduction \in Reductions
    /\ text_queue = ZeroQueue(queue_size, TextMaxLen)
    /\ vision_queue = ZeroQueue(queue_size, VisionMaxLen)
    /\ queue_ptr = 0
    /\ n_calls = 0
    /\ cl_text = <<>>
    /\ cl_masks = <<>>
    /\ cl_vision = <<>>
    /\ cl_raised = "none"
    /\ cl_loss = <<>>
    /\ AsmIdle
    /\ CfgIdle
    /\ FwdIdle
    /\ GenIdle
    /\ KernelIdle
    /\ DataIdle
    /\ FreezeIdle

\* one call of ContrastiveAlignment.forward
ca_forward ==
    /\ n_calls < MaxCalls
    /\ \E a \in CallArgs(n_calls) :
       \E r \in {forward_result(a.text, a.vision, a.masks)} :
          /\ cl_text' = a.text
          /\ cl_masks' = a.masks
          /\ cl_vision' = a.vision
          /\ cl_raised' = r.raised
          /\ cl_loss' = r.loss
          /\ text_queue' = r.text_queue
          /\ vision_queue' = r.vision_queue
          /\ queue_ptr' = r.queue_ptr
    /\ n_calls' = n_calls + 1
    /\ UNCHANGED <<queue_size, reduction, asmVars, cfgVars, fwdVars, genVars,
                   kernelVars, dataVars, freezeVars>>

QueueNext == ca_forward

SpecQueue == QueueInit /\ [][QueueNext]_vars

\* ------------------------------------------------------------------------
\* generate (v5.1 lines 704-737, v5.1_old lines 516-545)
\* ------------------------------------------------------------------------
\* the token ids the arg-max of the logits can be
GenVocab == {1, 2}

\* one block, or enough blocks for one that transposes
GenLayers == {1, 3}

\* the selectors generate of v5.1 tests for (lines 720-725)
GenModes == {"unidirection", "bidirection", "multidirection"}

\* what a pass of the loop of a forward variant leaves in x (lines 425-429,
\* 443-454, 470-486)
PassOut(mode, i, x) ==
    LET H == IntSqrt(img_end - img_start)
        out == BlockOut(i, x)
        y1 == IF mode \in {"bidirection", "multidirection"} /\ do_reverse(i)
              THEN FlipSpan(out, img_start, img_end) ELSE out
    IN  IF mode = "multidirection" /\ do_transpose(i)
        THEN TransposeSpan(y1, img_start, img_end, H) ELSE y1

\* unidirectional_forward, bidirectional_forward and multidirectional_forward
\* from block i on: the blocks move no position out of x, the transposition
\* of multidirectional_forward raises when the span is not H * H long
RECURSIVE RunBlocks(_, _, _)
RunBlocks(mode, x, i) ==
    IF i >= n_layer THEN [raised |-> "none", x |-> x]
    ELSE IF /\ mode = "multidirection"
            /\ do_transpose(i)
            /\ ~ViewOk(x, img_start, img_end, IntSqrt(img_end - img_start))
    THEN [raised |-> "RuntimeError", x |-> x]
    ELSE RunBlocks(mode, PassOut(mode, i, x), i + 1)

\* (mutant of Truncate: the context is never cut)
Truncate_never(x, ctx) == x

\* x[:, -self.args.ctx_len:, :]
Truncate(x, ctx) == Tail_(x, ctx)

\* (mutant of IsStop: the loop never breaks)
IsStop_never(tok, stop) == FALSE

\* generated[-1] == stop_token_idx
IsStop(tok, stop) == tok = stop

GenInit ==
    /\ gen_ver \in {"v5.1", "v5.1_old"}
    /\ image_scanning \in (IF gen_ver = "v5.1" THEN TrunkModes \cup StaticModes
                                              ELSE {"unidirection"})
    /\ grid_size = -1
    /\ vit_grid = 0
    /\ n_layer \in GenLayers
    /\ \E k \in 1..MaxGenPrompt : \E ids \in SampleIds(k) :
          /\ input_ids = <<ids>>
          /\ labels = <<[p \in 1..k |-> IGNORE_INDEX]>>
    /\ n_feat \in 1..MaxFeat
    /\ ctx_len \in 1..MaxGenCtx
    /\ do_sample \in BOOLEAN
    /\ max_new_tokens \in 0..MaxNew
    /\ stop_token_idx \in GenVocab
    /\ gen_pc = "start"
    /\ gen_i = 0
    /\ gen_x = <<>>
    /\ generated = <<>>
    /\ trunk_lens = <<>>
    /\ gen_raised = "none"
    /\ pc = "start"
    /\ ver = "none"
    /\ truncate = FALSE
    /\ raised = "none"
    /\ img_start = -1
    /\ img_end = -1
    /\ new_input_embeds = <<>>
    /\ new_labels = <<>>
    /\ truncated_input_embeds = <<>>
    /\ truncated_labels = <<>>
    /\ new_input_embeds_padded = <<>>
    /\ new_labels_padded = <<>>
    /\ image_features = <<>>
    /\ FwdIdle
    /\ QueueIdle
    /\ KernelIdle
    /\ DataIdle
    /\ FreezeIdle

\* generate up to its loop (v5.1 lines 714-718, v5.1_old lines 526-532):
\* preparing_embedding with truncate=False
generate_begin ==
    /\ gen_pc = "start"
    /\ IF gen_ver = "v5.1"
       THEN AsmEffect(n_feat, FALSE)
       ELSE AsmEffectOld(n_feat, FALSE) /\ UNCHANGED <<img_start, img_end, image_features>>
    /\ pc' = "done"
    /\ ver' = gen_ver
    /\ IF raised' # "none"
       THEN gen_pc' = "raised" /\ gen_raised' = raised' /\ gen_x' = <<>>
       ELSE gen_pc' = "loop" /\ gen_raised' = "none"
            /\ gen_x' = new_input_embeds_padded'[1]
    /\ UNCHANGED <<input_ids, labels, n_feat, ctx_len, cfgVars, fwdVars,
                   queueVars, kernelVars, dataVars, freezeVars, gen_ver, do_sample, max_new_tokens,
                   stop_token_idx, gen_i, generated, trunk_lens>>

\* one pass of the loop (v5.1 lines 719-736, v5.1_old lines 533-544)
generate_step ==
    /\ gen_pc = "loop"
    /\ gen_i < max_new_tokens
    /\ IF gen_ver = "v5.1" /\ image_scanning \notin GenModes
       THEN \* none of the tests of lines 720-725 holds: logits is not bound
            /\ gen_pc' = "raised"
            /\ gen_raised' = "UnboundLocalError"
            /\ UNCHANGED <<gen_i, gen_x, generated, trunk_lens>>
       ELSE \E r \in {IF gen_ver = "v5.1"
                      THEN RunBlocks(image_scanning, <<gen_x>>, 0)
                      ELSE [raised |-> "none", x |-> <<gen_x>>]} :
            /\ trunk_lens' = Append(trunk_lens, Len(gen_x))
            /\ IF r.raised # "none"
               THEN /\ gen_pc' = "raised"
                    /\ gen_raised' = r.raised
                    /\ UNCHANGED <<gen_i, gen_x, generated>>
               ELSE IF do_sample
               THEN /\ gen_pc' = "raised"
                    /\ gen_raised' = "NotImplementedError"
                    /\ UNCHANGED <<gen_i, gen_x, generated>>
               ELSE \E next_token \in GenVocab :
                    /\ generated' = Append(generated, next_token)
                    /\ gen_raised' = "none"
                    /\ IF IsStop(next_token, stop_token_idx)
                       THEN gen_pc' = "returned" /\ UNCHANGED <<gen_i, gen_x>>
                       ELSE /\ gen_pc' = "loop"
                            /\ gen_i' = gen_i + 1
                            /\ gen_x' = Truncate(Append(gen_x, Emb(next_token)),
                                                 ctx_len)
    /\ UNCHANGED <<asmVars, cfgVars, fwdVars, queueVars, kernelVars, dataVars, freezeVars, gen_ver, do_sample,
                   max_new_tokens, stop_token_idx>>

\* the loop ran max_new_tokens times: return generated
generate_return ==
    /\ gen_pc = "loop"
    /\ gen_i >= max_new_tokens
    /\ gen_pc' = "returned"
    /\ UNCHANGED <<asmVars, cfgVars, fwdVars, queueVars, kernelVars, dataVars, freezeVars, gen_ver, do_sample,
                   max_new_tokens, stop_token_idx, gen_i, gen_x, generated,
                   trunk_lens, gen_raised>>

GenNext == generate_begin \/ generate_step \/ generate_return

SpecGen == GenInit /\ [][GenNext]_vars

\* generate runs to its end once called: nothing else runs beside it
SpecGenFair == SpecGen /\ WF_vars(GenNext)

\* ------------------------------------------------------------------------
\* WKV_5.forward (v5.1 lines 45-67)
\* ------------------------------------------------------------------------
TensorNames == {"r", "k", "v", "w", "u"}

Dtypes == {"bfloat16", "float32"}

\* torch.exp in float32 (w.float() of line 62).  A positive float32 is kept
\* as its base-2 logarithm in thousandths; the elements of w are integers,
\* which bfloat16 and float32 hold exactly.
\* log2(e) in thousandths
Log2eMilli == 1443
\* a float32 at or above 2^128 is inf
F32InfMilli == 128000
\* a float32 below 2^-150 rounds to 0
F32ZeroMilli == -150000
\* exp(-t) is below 2^-150 when t is above 150 / log2(e) = 103.97 = 2^6.700
ExpZeroArgMilli == 6700
\* 1 - t rounds to 1 when t is at most 2^-25, half the gap below 1
ExpOneArgMilli == -25000

\* torch.exp(w.float()) for one element
ExpOfInt(w) ==
    LET m == w * Log2eMilli
    IN  IF m >= F32InfMilli THEN [kind |-> "inf", m |-> 0]
        ELSE IF m < F32ZeroMilli THEN [kind |-> "zero", m |-> 0]
        ELSE [kind |-> "finite", m |-> m]

\* torch.exp(ew) for ew = -t, t >= 0: "0.0", "1.0" or a float32 strictly
\* between the two
ExpOfNeg(t) ==
    IF t.kind = "zero" THEN "1.0"
    ELSE IF t.kind = "inf" THEN "0.0"
    ELSE IF t.m > ExpZeroArgMilli THEN "0.0"
    ELSE IF t.m <= ExpOneArgMilli THEN "1.0"
    ELSE "in(0,1)"

\* lines 62-63: eew = exp(-exp(w.float()))
DecayFactor(w) == [j \in 1..Len(w) |-> ExpOfNeg(ExpOfInt(w[j]))]

\* lines 47-51
DtypesOk(dt) == \A n \in TensorNames : dt[n] = "bfloat16"

\* line 52
HeadSizeOk(hs, C, H) == hs = C \div H

\* (mutant of ContigOk: the layout of the tensors is not checked)
ContigOk_unchecked(cg) == TRUE

\* lines 57-61
ContigOk(cg) == \A n \in TensorNames : cg[n]

\* the call, whatever its arguments
wkv5_forward ==
    /\ k_pc = "start"
    /\ IF ~DtypesOk(k_dtype) \/ ~HeadSizeOk(HEAD_SIZE, k_C, k_H)
       THEN /\ k_pc' = "raised"
            /\ k_raised' = "AssertionError"
            /\ UNCHANGED <<k_ctx, k_saved, k_eew, k_invoked>>
       ELSE IF ~ContigOk(k_contig)
       THEN /\ k_pc' = "raised"
            /\ k_raised' = "AssertionError"
            /\ k_ctx' = [C |-> k_C, H |-> k_H]
            /\ UNCHANGED <<k_saved, k_eew, k_invoked>>
       ELSE /\ k_pc' = "returned"
            /\ k_raised' = "none"
            /\ k_ctx' = [C |-> k_C, H |-> k_H]
            /\ k_eew' = DecayFactor(k_w)
            /\ k_saved' = <<"r", "k", "v", "eew", "ew", "u">>
            /\ k_invoked' = TRUE
    /\ UNCHANGED <<HEAD_SIZE, k_C, k_H, k_dtype, k_contig, k_w, asmVars,
                   cfgVars, fwdVars, queueVars, genVars, dataVars,
                   freezeVars>>

KernelCallIdle ==
    /\ k_pc = "start"
    /\ k_raised = "none"
    /\ k_ctx = <<>>
    /\ k_saved = <<>>
    /\ k_eew = <<>>
    /\ k_invoked = FALSE
    /\ AsmIdle
    /\ CfgIdle
    /\ FwdIdle
    /\ QueueIdle
    /\ GenIdle
    /\ DataIdle
    /\ FreezeIdle

\* calls with any dtypes, layouts and sizes; the elements of w are 0
KernelInit ==
    /\ HEAD_SIZE \in 1..MaxHeadSize
    /\ k_C \in 1..MaxChannels
    /\ k_H \in 1..MaxChannels
    /\ k_dtype \in [TensorNames -> Dtypes]
    /\ k_contig \in [TensorNames -> BOOLEAN]
    /\ k_w = [j \in 1..k_C |-> 0]
    /\ KernelCallIdle

KernelNext == wkv5_forward

SpecKernel == KernelInit /\ [][KernelNext]_vars

\* calls that meet the preconditions, with one head, for any elements of w
DecayInit ==
    /\ HEAD_SIZE \in 1..MaxHeadSize
    /\ k_H = 1
    /\ k_C = HEAD_SIZE
    /\ k_dtype = [n \in TensorNames |-> "bfloat16"]
    /\ k_contig = [n \in TensorNames |-> TRUE]
    /\ k_w \in [1..k_C -> (-MaxDecay)..MaxDecay]
    /\ KernelCallIdle

SpecDecay == DecayInit /\ [][KernelNext]_vars

\* ========================================================================
\* Claims
\* ========================================================================
\* 0-based positions of the image placeholder in a sample
Placeholders(ids) == {p - 1 : p \in {q \in 1..Len(ids) : ids[q] = IMAGE_TOKEN_INDEX}}

SetMax(S) == CHOOSE m \in S : \A o \in S : o <= m

\* the index of the single placeholder of a sample that holds exactly one
PlaceholderIndex(ids) == SetMax(Placeholders(ids))

\* M: the largest placeholder index among the samples of the batch that hold
\* exactly one placeholder (0 when there is none)
BatchMaxIndex ==
    SetMax({0} \cup UNION {Placeholders(input_ids[s]) :
                s \in {t \in 1..Len(input_ids) :
                          Cardinality(Placeholders(input_ids[t])) = 1}})

AsmDone51 == pc = "done" /\ ver = "v5.1"

\* C1 (as claimed): in v5.1, for every batch whose samples all hold exactly
\* one placeholder, the call yields for every sample a merged sequence of
\* length M + L + (tokens after the placeholder) whose positions [M, M+L)
\* hold that sample's L image features in order, all with the ignore label.
C1_MergedLayout ==
    (AsmDone51 /\ \A s \in 1..Len(input_ids) :
                      Cardinality(Placeholders(input_ids[s])) = 1)
    => /\ raised = "none"
       /\ \A s \in 1..Len(input_ids) :
            LET i == PlaceholderIndex(input_ids[s])
                M == BatchMaxIndex
                L == n_feat
            IN  /\ Len(new_input_embeds[s]) = M + L + (Len(input_ids[s]) - i - 1)
                /\ Len(new_labels[s]) = Len(new_input_embeds[s])
                /\ \A k \in 0..(L - 1) :
                      /\ new_input_embeds[s][M + k + 1] = Feat(s - 1, k)
                      /\ new_labels[s][M + k + 1] = IGNORE_INDEX

\* C2 (as claimed): whenever some sample of the batch holds two or more
\* placeholders, preparing_embedding (v5.1 and v5.1_old) raises ValueError
\* and returns no merged sequence, whatever the other samples hold.
C2_TwoPlaceholdersRaiseValueError ==
    (pc = "done" /\ \E s \in 1..Len(input_ids) :
                       Cardinality(Placeholders(input_ids[s])) >= 2)
    => /\ raised = "ValueError"
       /\ new_input_embeds_padded = <<>>
       /\ new_labels_padded = <<>>

\* C3 (as claimed): in v5.1, for every sample whose single placeholder is at
\* index i, 0 <= i <= M, the left padding completes without error and the
\* merged sequence starts with M - i embeddings of token id 0 labelled
\* ignore, followed by the i pre-image tokens in order with their labels.
C3_LeftPadding ==
    (AsmDone51 /\ \A s \in 1..Len(input_ids) :
                      Cardinality(Placeholders(input_ids[s])) <= 1)
    => /\ raised = "none"
       /\ \A s \in 1..Len(input_ids) :
            Cardinality(Placeholders(input_ids[s])) = 1 =>
                LET i == PlaceholderIndex(input_ids[s])
                    M == BatchMaxIndex
                IN  /\ \A q \in 1..(M - i) :
                          /\ new_input_embeds[s][q] = Emb(0)
                          /\ new_labels[s][q] = IGNORE_INDEX
                    /\ \A q \in 1..i :
                          /\ new_input_embeds[s][M - i + q] = Emb(input_ids[s][q])
                          /\ new_labels[s][M - i + q] = labels[s][q]

\* C4 (as claimed): in v5.1, the merged sequence of a sample with no
\* placeholder is, once the M positions of left-padding filler are removed,
\* the plain embedding of its tokens with its labels (no masked image span).
C4_PlainAfterPadding ==
    (AsmDone51 /\ raised = "none")
    => \A s \in 1..Len(input_ids) :
          Placeholders(input_ids[s]) = {} =>
              /\ Slice(new_input_embeds[s], BatchMaxIndex, Len(new_input_embeds[s]))
                    = EmbSeq(input_ids[s])
              /\ Slice(new_labels[s], BatchMaxIndex, Len(new_labels[s])) = labels[s]

\* C4 (amended): in v5.1, the merged sequence of a sample with no
\* placeholder is M filler embeddings of token id 0, then L zero vectors in
\* place of the image features, all M + L labelled ignore, then the plain
\* embedding of its whole token sequence with its labels.
C4_ZeroPlaceholderLayout ==
    (AsmDone51 /\ raised = "none")
    => \A s \in 1..Len(input_ids) :
          Placeholders(input_ids[s]) = {} =>
              LET M == BatchMaxIndex
                  L == n_feat
              IN  /\ Len(new_input_embeds[s]) = M + L + Len(input_ids[s])
                  /\ Len(new_labels[s]) = M + L + Len(input_ids[s])
                  /\ \A q \in 1..M :
                        /\ new_input_embeds[s][q] = Emb(0)
                        /\ new_labels[s][q] = IGNORE_INDEX
                  /\ \A q \in (M + 1)..(M + L) :
                        /\ new_input_embeds[s][q] = ZeroVec
                        /\ new_labels[s][q] = IGNORE_INDEX
                  /\ \A q \in 1..Len(input_ids[s]) :
                        /\ new_input_embeds[s][M + L + q] = Emb(input_ids[s][q])
                        /\ new_labels[s][M + L + q] = labels[s][q]

\* C4 witness: a v5.1 call that returned, on a batch that holds a sample
\* without placeholder, with a label of its own, next to a sample whose
\* placeholder makes M positive
C4_Witness ==
    /\ AsmDone51 /\ raised = "none"
    /\ BatchMaxIndex > 0
    /\ \E s \in 1..Len(input_ids) :
          /\ Placeholders(input_ids[s]) = {}
          /\ \E q \in 1..Len(labels[s]) : labels[s][q] # IGNORE_INDEX

TruncDone == pc = "done" /\ ver = "truncate_input"

\* the labels proper of y all lie within its last w positions
AllValidInLast(y, w) ==
    \A p \in 1..Len(y) : y[p] # IGNORE_INDEX => p > Len(y) - w

HasValid(y) == \E p \in 1..Len(y) : y[p] # IGNORE_INDEX

\* positions off+1 .. off+k of z
Window(z, off, k) == [p \in 1..k |-> z[off + p]]

\* the result for sample b is the last ctx_len positions of its input
TrailingKept(b) ==
    LET n == Len(new_labels[b])
        k == IF n < ctx_len THEN n ELSE ctx_len
    IN  /\ truncated_input_embeds[b] = Window(new_input_embeds[b], n - k, k)
        /\ truncated_labels[b] = Window(new_labels[b], n - k, k)

\* C5: truncate_input decides per sample: a label proper among the first
\* ctx_len positions keeps exactly the first ctx_len positions, otherwise
\* exactly the last ctx_len positions are kept; embeddings and labels are
\* cut alike, the result has min(length, ctx_len) positions, and a sequence
\* not longer than ctx_len comes back unchanged.
C5_TruncatePerSample ==
    TruncDone =>
      /\ Len(truncated_labels) = Len(new_labels)
      /\ Len(truncated_input_embeds) = Len(new_input_embeds)
      /\ \A b \in 1..Len(new_labels) :
           LET y == new_labels[b]
               x == new_input_embeds[b]
               n == Len(y)
               k == IF n < ctx_len THEN n ELSE ctx_len
               leading == \E p \in 1..k : y[p] # IGNORE_INDEX
               off == IF leading THEN 0 ELSE n - k
           IN  /\ Len(truncated_labels[b]) = k
               /\ Len(truncated_input_embeds[b]) = k
               /\ \A p \in 1..k :
                     /\ truncated_labels[b][p] = y[off + p]
                     /\ truncated_input_embeds[b][p] = x[off + p]
               /\ (n <= ctx_len =>
                     /\ truncated_labels[b] = y
                     /\ truncated_input_embeds[b] = x)

\* C5 witness: a call on two samples longer than ctx_len, of which the first
\* keeps its leading and the second its trailing positions
C5_Witness ==
    /\ TruncDone
    /\ Len(new_labels) = 2
    /\ Len(new_labels[1]) > ctx_len /\ Len(new_labels[2]) > ctx_len
    /\ new_labels[1][1] # IGNORE_INDEX
    /\ truncated_input_embeds[1][1] = PosVec(0, 0)
    /\ ~HasValid(Head_(new_labels[2], ctx_len)) /\ HasValid(new_labels[2])
    /\ truncated_input_embeds[2][1] = PosVec(1, Len(new_labels[2]) - ctx_len)

\* C6 (as claimed): for every sequence longer than ctx_len whose labels
\* proper all lie within its last 10 positions, truncate_input keeps the
\* last ctx_len positions and the truncated labels hold a label proper.
C6_TrailingForLateLabels ==
    TruncDone =>
      \A b \in 1..Len(new_labels) :
         (Len(new_labels[b]) > ctx_len /\ AllValidInLast(new_labels[b], 10))
         => /\ TrailingKept(b)
            /\ HasValid(truncated_labels[b])

\* C6 (amended): for every sequence longer than ctx_len that holds a label
\* proper, whose labels proper all lie within its last 10 positions and
\* none within its first ctx_len positions, truncate_input keeps the last
\* ctx_len positions; the truncated labels hold a label proper exactly when
\* one lies within the last ctx_len positions, so whenever ctx_len >= 10.
C6_TrailingWhenPrefixUnlabelled ==
    TruncDone =>
      \A b \in 1..Len(new_labels) :
         LET y == new_labels[b]
             n == Len(y)
         IN  (/\ n > ctx_len
              /\ HasValid(y)
              /\ AllValidInLast(y, 10)
              /\ ~HasValid(Head_(y, ctx_len)))
             => /\ TrailingKept(b)
                /\ truncated_input_embeds[b][1] = PosVec(b - 1, n - ctx_len)
                /\ (HasValid(truncated_labels[b])
                      <=> \E p \in (n - ctx_len + 1)..n : y[p] # IGNORE_INDEX)
                /\ (ctx_len >= 10 => HasValid(truncated_labels[b]))

\* C6 witness: a call with ctx_len >= 10 on a longer sequence whose only
\* label proper is its last one
C6_Witness ==
    /\ TruncDone
    /\ ctx_len >= 10
    /\ \E b \in 1..Len(new_labels) :
          LET y == new_labels[b]
          IN  /\ Len(y) > ctx_len
              /\ y[Len(y)] # IGNORE_INDEX
              /\ ~HasValid(Head_(y, Len(y) - 1))
              /\ truncated_labels[b][ctx_len] # IGNORE_INDEX

\* ------------------------------------------------------------------------
\* Scan orders
\* ------------------------------------------------------------------------
IsPermutation(order, m) ==
    /\ Len(order) = m
    /\ \A k \in 0..(m - 1) : Cardinality({j \in 1..Len(order) : order[j] = k}) = 1

\* torch.argsort of a permutation: its inverse
InverseOrder(order) ==
    [k \in 1..Len(order) |-> (CHOOSE j \in 1..Len(order) : order[j] = k - 1) - 1]

RoundTrip(order) ==
    LET seq == [k \in 1..Len(order) |-> Feat(0, k - 1)]
    IN  TakeInOrder(TakeInOrder(seq, order), InverseOrder(order)) = seq

Constructed == pc # "start" /\ image_scanning \in StaticModes

\* C7: for the grid side N of the model, each of get_spiral_scan_order(N),
\* get_snake_scan_order(N) and get_zigzag_scan_order(N) has length N*N and
\* holds every index of 0..N*N-1 exactly once, and applying the order and
\* then its inverse restores the sequence; the order the model registered is
\* the one of its mode.
C7_ScanOrdersArePermutations ==
    Constructed =>
        /\ \A order \in {get_spiral_scan_order(vit_grid),
                         get_snake_scan_order(vit_grid),
                         get_zigzag_scan_order(vit_grid)} :
              IsPermutation(order, vit_grid * vit_grid) /\ RoundTrip(order)
        /\ scan_order \in {get_spiral_scan_order(vit_grid),
                           get_snake_scan_order(vit_grid),
                           get_zigzag_scan_order(vit_grid)}
        /\ IsPermutation(scan_order, vit_grid * vit_grid)

\* a model of grid side 3 registered the spiral order of the reference
C7_Witness ==
    /\ Constructed
    /\ vit_grid = 3
    /\ image_scanning = "spiral"
    /\ scan_order = <<0, 1, 2, 5, 8, 7, 6, 3, 4>>

ScanDone == pc = "done" /\ ver = "v5.1" /\ image_scanning \in StaticModes

SupportedGrid == grid_size \in ({-1, 1} \cup 2..vit_grid)

Untruncated == \A b \in 1..Len(new_input_embeds) : Len(new_input_embeds[b]) <= ctx_len

\* C9: in the spiral, snake and zigzag modes, for grid_size -1, 1 and g >= 2,
\* once preparing_embedding has returned without truncating, the registered
\* order has img_end - img_start entries, the reordering raises nothing, span
\* position j holds the non-summary feature order[j], and every non-summary
\* feature index occurs in the order exactly once.
C9_OrderMatchesSpan ==
    (ScanDone /\ SupportedGrid /\ raised = "none" /\ Untruncated) =>
        /\ Len(scan_order) = img_end - img_start
        /\ fwd_raised = "none"
        /\ \A b \in 1..Len(x_fwd) : \A j \in 1..Len(scan_order) :
              x_fwd[b][img_start + j] = image_features[b][scan_order[j] + 1]
        /\ \A b \in 1..Len(image_features) :
              IsPermutation(scan_order, Len(image_features[b]) - 1)

\* ------------------------------------------------------------------------
\* Layer loops
\* ------------------------------------------------------------------------
SpanLen == img_end - img_start

\* a rotational pass has run and the whole span lies within the sequences
Rotated ==
    /\ image_scanning = "rotation"
    /\ pc \in {"trunk", "done"}
    /\ li >= 1
    /\ \A b \in 1..Len(x_fwd) : Len(x_fwd[b]) >= img_end

\* C8: after a pass of rotational_forward, span position p of sample b holds
\* what the block returned at span position (p - d) mod span-length of the
\* same sample b, d = floor((img_end - img_start) / 3), and no vector of a
\* sample comes from another sample.
C8_RotationWithinSample ==
    Rotated =>
        LET d == SpanLen \div 3
        IN  /\ \A b \in 1..Len(x_fwd) : \A p \in 0..(SpanLen - 1) :
                  x_fwd[b][img_start + p + 1] =
                      blk_out[b][img_start + ((p - d) % SpanLen) + 1]
            /\ \A b \in 1..Len(x_fwd) : \A p \in 1..Len(x_fwd[b]) :
                  x_fwd[b][p][3] = b - 1

NonSquare ==
    /\ image_scanning = "multidirection"
    /\ pc \in {"trunk", "raised", "done"}
    /\ raised = "none"
    /\ IntSqrt(SpanLen) * IntSqrt(SpanLen) # SpanLen

\* C10: in the multidirection mode the forward pass never completes
\* on a span whose length is not a perfect square.
C10_NonSquareNeverCompletes == NonSquare => pc # "done"

\* ------------------------------------------------------------------------
\* Unsupported selector
\* ------------------------------------------------------------------------
UnsupportedCalled ==
    /\ image_scanning \notin (TrunkModes \cup StaticModes)
    /\ pc \in {"raised", "done", "trunk"}

\* C11: forward of a model whose image_scanning is none of the seven
\* selectors fails before the embedding assembler has run (img_start and
\* img_end still unset, no merged sequence built), with an error raised for
\* the selector, not the UnboundLocalError of a variable never bound.
C11_UnsupportedSelectorFailsFirst ==
    UnsupportedCalled =>
        /\ pc = "raised"
        /\ img_start = -1 /\ img_end = -1
        /\ new_input_embeds = <<>>
        /\ new_input_embeds_padded = <<>>
        /\ raised = "none"
        /\ fwd_raised \notin {"none", "UnboundLocalError"}

\* ------------------------------------------------------------------------
\* ContrastiveAlignment
\* ------------------------------------------------------------------------
\* the arguments of the call have the shape of the queue slots and the
\* batch fits between the write pointer and the end of the queue
FitsQueue(text, vision, ptr) ==
    /\ \A b \in 1..Len(text) : Len(text[b]) = TextMaxLen
    /\ \A b \in 1..Len(vision) : Len(vision[b]) = VisionMaxLen
    /\ ptr + Len(text) <= queue_size

\* C12: every forward call whose batch fits the cache writes the masked
\* text embeddings and the vision embeddings of the batch at the write
\* pointer and advances the pointer, whether or not the loss computation of
\* the call succeeded.
C12_CacheWrittenOnEveryCall ==
    [][FitsQueue(cl_text', cl_vision', queue_ptr) =>
          /\ queue_ptr' = (queue_ptr + Len(cl_text')) % queue_size
          /\ \A b \in 1..Len(cl_text') :
                /\ text_queue'[queue_ptr + b] = MaskedText(cl_text', cl_masks')[b]
                /\ vision_queue'[queue_ptr + b] = cl_vision'[b]]_vars

\* C13: the write pointer stays within 0..queue_size-1 and both queues keep
\* queue_size slots; a call that completes with batch size B moves the
\* pointer from p to (p + B) mod queue_size, a call that raises leaves it
\* where it was.
C13_QueuePointerInRange ==
    /\ [](/\ 0 <= queue_ptr /\ queue_ptr < queue_size
          /\ Len(text_queue) = queue_size
          /\ Len(vision_queue) = queue_size)
    /\ [][/\ cl_raised' = "none" =>
                queue_ptr' = (queue_ptr + Len(cl_text')) % queue_size
          /\ cl_raised' # "none" => queue_ptr' = queue_ptr]_vars

\* a second call wrapped the pointer of a queue of 3 slots back to 0
C13_Witness ==
    /\ queue_size = 3
    /\ n_calls = 2
    /\ cl_raised = "none"
    /\ Len(cl_text) = 2
    /\ queue_ptr = 0
    /\ vision_queue[1] = <<VisVec(0, 0, 0)>>
    /\ vision_queue[3] = <<VisVec(1, 1, 0)>>

CallCompleted == n_calls >= 1 /\ cl_raised = "none"

\* C14: a completed forward call returns the in-cache loss alone exactly
\* when its batch size is 1; with a larger batch the loss is the sum of the
\* in-batch and the in-cache term.
C14_InQueueAloneIffSingle ==
    CallCompleted =>
        /\ cl_loss.terms = {"in_queue"} <=> Len(cl_text) = 1
        /\ Len(cl_text) > 1 => cl_loss.terms = {"in_batch", "in_queue"}

\* a call with a batch of two returned both terms
C14_Witness ==
    /\ CallCompleted
    /\ Len(cl_text) = 2
    /\ cl_loss.terms = {"in_batch", "in_queue"}

\* C15: the first call on the all-zero cache, with a batch of one sample of
\* the shape of the queue slots and either pooling policy, raises nothing and
\* returns a finite loss, whatever the text mask of the sample.
C15_ColdStartLossFinite ==
    (/\ n_calls = 1
     /\ Len(cl_text) = 1
     /\ reduction \in {"mean", "weighted"}
     /\ FitsQueue(cl_text, cl_vision, 0)) =>
        /\ cl_raised = "none"
        /\ cl_loss.finite

\* ------------------------------------------------------------------------
\* generate
\* ------------------------------------------------------------------------
GenEnded == gen_pc \in {"returned", "raised"}

\* the list generate returns: no longer than max_new_tokens, the stop token
\* only as its last element, and cut short only by the stop token
ReturnedListOk ==
    LET n == Len(generated)
    IN  /\ n <= max_new_tokens
        /\ \A j \in 1..n : generated[j] = stop_token_idx => j = n
        /\ n < max_new_tokens => (n >= 1 /\ generated[n] = stop_token_idx)
        /\ Len(trunk_lens) = n

\* C16: with do_sample false, generate ends (it returns or raises) after at
\* most max_new_tokens trunk invocations; the list it returns has at most
\* max_new_tokens elements, holds the stop token id at most once and only as
\* its last element, and ends with the stop token id when it is shorter than
\* max_new_tokens.
C16_GenerateTerminates ==
    /\ [](~do_sample => Len(trunk_lens) <= max_new_tokens)
    /\ []((~do_sample /\ gen_pc = "returned") => ReturnedListOk)
    /\ (~do_sample) ~> GenEnded

\* a call returned two tokens out of three allowed, ending with the stop
\* token
C16_Witness ==
    /\ ~do_sample
    /\ gen_pc = "returned"
    /\ max_new_tokens = 3
    /\ Len(generated) = 2
    /\ generated[1] # stop_token_idx
    /\ generated[2] = stop_token_idx
    /\ Len(trunk_lens) = 2

\* C17: every context generate hands to the trunk, the first included, has
\* length at most ctx_len.
C17_ContextWithinWindow ==
    \A k \in 1..Len(trunk_lens) : trunk_lens[k] <= ctx_len

\* ------------------------------------------------------------------------
\* WKV_5.forward
\* ------------------------------------------------------------------------
\* C18: every element of the decay factor eew = exp(-exp(w)) that
\* WKV_5.forward computes and hands to the kernel lies strictly between 0
\* and 1, whatever the elements of w.
C18_DecayStrictlyInside ==
    k_invoked => \A j \in 1..Len(k_eew) : k_eew[j] = "in(0,1)"

Preconditions ==
    /\ \A n \in TensorNames : k_dtype[n] = "bfloat16" /\ k_contig[n]
    /\ HEAD_SIZE = k_C \div k_H

\* C19: the kernel is invoked only when r, k, v, w and u are bfloat16 and
\* contiguous and HEAD_SIZE = C // H; a call that misses one of these raises
\* AssertionError without having invoked the kernel or saved a tensor for the
\* backward pass, and a call that meets them invokes the kernel.
C19_KernelGuarded ==
    /\ k_invoked => Preconditions
    /\ (k_pc # "start" /\ ~Preconditions) =>
          /\ k_pc = "raised"
          /\ k_raised = "AssertionError"
          /\ ~k_invoked
          /\ k_saved = <<>>
    /\ (k_pc # "start" /\ Preconditions) =>
          k_pc = "returned" /\ k_invoked /\ k_saved # <<>>

\* a call whose only fault is that u is not contiguous raised after the
\* sizes were noted on ctx, before anything was saved
C19_Witness ==
    /\ k_pc = "raised"
    /\ \A n \in TensorNames : k_dtype[n] = "bfloat16"
    /\ HEAD_SIZE = k_C \div k_H
    /\ \A n \in TensorNames : k_contig[n] <=> n # "u"
    /\ k_ctx # <<>>
    /\ k_saved = <<>>
    /\ ~k_invoked

\* ======================================================================
\* dataset.py (v5.1_old): from a conversation to token ids
\* ======================================================================
\* A text is a sequence of pieces; the string it stands for is their
\* concatenation.  "<ima" and "ge>" are ordinary text that reads as the image
\* tag when the two stand side by side.
PAD_TOKEN_INDEX == 0
DEFAULT_IMAGE_TOKEN == "<image>"
STOP_TOKEN_INDEX == 261
DEFAULT_STOP_TOKEN == "\n\n"

\* the pieces a sentence of the input is written with
Pieces == {DEFAULT_IMAGE_TOKEN, "<ima", "ge>", "\n"}

\* sentence["from"] of the input
Speakers == {"human", "gpt", "Human", "system"}

\* the window sizes: shorter than one sentence, and wide enough for all
MaxDataCtx == 12
DataCtxLens == {MaxTurnLen, MaxDataCtx}

\* the one way of writing a string: "<ima" followed by "ge>" is the tag
RECURSIVE Canon(_)
Canon(s) ==
    IF Len(s) < 2 THEN s
    ELSE IF s[1] = "<ima" /\ s[2] = "ge>"
         THEN <<DEFAULT_IMAGE_TOKEN>> \o Canon(SubSeq(s, 3, Len(s)))
         ELSE <<s[1]>> \o Canon(Tail(s))

\* DEFAULT_IMAGE_TOKEN in value
HasImageTag(v) == \E j \in 1..Len(v) : v[j] = DEFAULT_IMAGE_TOKEN

\* value.replace(DEFAULT_IMAGE_TOKEN, ''): one pass over the occurrences of
\* value; what the removal brings side by side is left in the result
ReplaceTag(v) == Canon(SelectSeq(v, LAMBDA p : p # DEFAULT_IMAGE_TOKEN))

IsSpace(p) == p \in {"\n", " ", DEFAULT_STOP_TOKEN}

\* value.strip()
Strip(v) ==
    LET idx == {j \in 1..Len(v) : ~IsSpace(v[j])}
    IN  IF idx = {} THEN <<>>
        ELSE SubSeq(v, CHOOSE j \in idx : \A k \in idx : j <= k,
                       CHOOSE j \in idx : \A k \in idx : j >= k)

\* re.sub(r"\n(\s*\n)+", '\n', value): a newline, then white space up to a
\* last further newline, becomes one newline
RECURSIVE CollapseNewlines(_)
CollapseNewlines(v) ==
    IF v = <<>> THEN <<>>
    ELSE IF v[1] # "\n" THEN <<v[1]>> \o CollapseNewlines(Tail(v))
    ELSE LET run == {k \in 1..Len(v) : \A j \in 1..k : IsSpace(v[j])}
             nls == {k \in run : v[k] = "\n"}
             last == CHOOSE k \in nls : \A j \in nls : k >= j
         IN  <<"\n">> \o CollapseNewlines(SubSeq(v, last + 1, Len(v)))

\* the body of the loop of process_image_tokens_in_conversations
ProcessValue(v) ==
    IF HasImageTag(v)
    THEN LET v1 == Strip(ReplaceTag(v))
             v2 == CollapseNewlines(v1)
             v3 == Canon(<<DEFAULT_IMAGE_TOKEN, "\n">> \o v2)
         IN  Strip(v3)
    ELSE CollapseNewlines(Strip(v))

\* from_str.lower()
Lower(f) == IF f = "Human" THEN "human" ELSE f

SpeakerKnown(f) == Lower(f) \in {"human", "gpt"}

\* the body of the loop of _add_speaker_and_signal, for a known speaker
AddSpeaker(sentence) ==
    LET from_str == IF Lower(sentence.from) = "human" THEN "User"
                    ELSE "Assistant"
    IN  [from |-> sentence.from,
         value |-> IF sentence.value # <<>>
                   THEN Canon(<<from_str, ": ">> \o sentence.value
                              \o <<DEFAULT_STOP_TOKEN>>)
                   ELSE <<from_str, ":">>]

\* _add_speaker_and_signal: the sentences are rewritten in place, in order,
\* up to the first unknown speaker
UnknownAt(convs) == {j \in 1..Len(convs) : ~SpeakerKnown(convs[j].from)}
FirstUnknown(convs) ==
    CHOOSE j \in UnknownAt(convs) : \A k \in UnknownAt(convs) : j <= k
add_speaker_and_signal(convs) ==
    [j \in 1..Len(convs) |->
        IF UnknownAt(convs) # {} /\ j >= FirstUnknown(convs)
        THEN convs[j] ELSE AddSpeaker(convs[j])]

\* "".join([sentence["value"] for sentence in conversations])
RECURSIVE JoinValues(_)
JoinValues(convs) ==
    IF convs = <<>> THEN <<>>
    ELSE Canon(Head(convs).value \o JoinValues(Tail(convs)))

\* tokenizer.encode: one id for each piece of text
TokenId(p) ==
    CASE p = "\n" -> 11
      [] p = " " -> 33
      [] p = ":" -> 59
      [] p = ": " -> 60
      [] p = "<ima" -> 61
      [] p = "ge>" -> 63
      [] p = "User" -> 85
      [] p = "Assistant" -> 65
      [] p = DEFAULT_STOP_TOKEN -> STOP_TOKEN_INDEX

\* the tag, when it is encoded as text, is the text "<ima" "ge>"
RECURSIVE encode(_)
encode(chunk) ==
    IF chunk = <<>> THEN <<>>
    ELSE (IF Head(chunk) = DEFAULT_IMAGE_TOKEN
          THEN <<TokenId("<ima"), TokenId("ge>")>>
          ELSE <<TokenId(Head(chunk))>>) \o encode(Tail(chunk))

\* prompt.split(DEFAULT_IMAGE_TOKEN)
RECURSIVE SplitOnTag(_)
SplitOnTag(prompt) ==
    IF ~HasImageTag(prompt) THEN <<prompt>>
    ELSE LET j == CHOOSE j \in 1..Len(prompt) :
                     /\ prompt[j] = DEFAULT_IMAGE_TOKEN
                     /\ \A k \in 1..(j - 1) : prompt[k] # DEFAULT_IMAGE_TOKEN
         IN  <<SubSeq(prompt, 1, j - 1)>>
             \o SplitOnTag(SubSeq(prompt, j + 1, Len(prompt)))

\* the loop of tokenize_with_image_token
RECURSIVE ExtendChunks(_)
ExtendChunks(chunks) ==
    IF chunks = <<>> THEN <<>>
    ELSE encode(Head(chunks)) \o <<IMAGE_TOKEN_INDEX>>
         \o ExtendChunks(Tail(chunks))

tokenize_with_image_token(prompt) ==
    LET ids == ExtendChunks(SplitOnTag(prompt))
    IN  SubSeq(ids, 1, Len(ids) - 1)

\* cur_idx of mask_targets_from_human when it reaches sentence k
RECURSIVE CurIdx(_, _)
CurIdx(tokenized_lens, k) ==
    IF k = 1 THEN 0
    ELSE CurIdx(tokenized_lens, k - 1) + tokenized_lens[k - 1]

mask_targets_from_human(targets, tokenized_lens, speakers) ==
    [j \in 1..Len(targets) |->
        IF \E k \in 1..Len(tokenized_lens) :
              /\ speakers[k] = "human"
              /\ CurIdx(tokenized_lens, k) < j
              /\ j <= CurIdx(tokenized_lens, k) + tokenized_lens[k]
        THEN IGNORE_INDEX ELSE targets[j]]

\* t[-max_len:], and t[-0:] is all of t
LastOf(t, max_len) ==
    IF max_len = 0 \/ max_len >= Len(t) THEN t
    ELSE SubSeq(t, Len(t) - max_len + 1, Len(t))

\* pad_to_max_len; the pair (input_ids, targets)
pad_to_max_len(token_ids, targets, max_len, pad_token_id) ==
    LET ids == LastOf(token_ids, max_len)
        tgt == LastOf(targets, max_len)
        padding_len == max_len - Len(ids)
    IN  IF padding_len <= 0 THEN <<ids, tgt>>
        ELSE <<ids \o [j \in 1..padding_len |-> pad_token_id],
               tgt \o [j \in 1..padding_len |-> IGNORE_INDEX]>>

\* lines 118-121 and 124-127: the tag is a placeholder when has_image holds
\* and text when it does not
Tokenize(prompt, with_image) ==
    IF with_image THEN tokenize_with_image_token(prompt) ELSE encode(prompt)

\* the dict preprocess returns, from rewritten sentences
preprocess_result(convs, with_image, max_len) ==
    LET conversation == JoinValues(convs)
        token_ids == Tokenize(conversation, with_image)
        tokenized_lens ==
            [k \in 1..Len(convs) |-> Len(Tokenize(convs[k].value, with_image))]
        speakers == [k \in 1..Len(convs) |-> convs[k].from]
        targets == mask_targets_from_human(token_ids, tokenized_lens, speakers)
    IN  pad_to_max_len(token_ids, targets, max_len, PAD_TOKEN_INDEX)

\* the texts of at most n pieces, each written the one way
TextsUpTo(n) ==
    {v \in UNION {[1..l -> Pieces] : l \in 0..n} : Canon(v) = v}

\* process_tokens_in_conversations(conversations), which __getitem__ calls
\* for a sample without 'image' (line 162)
process_tokens_in_conversations ==
    /\ d_pc = "raw"
    /\ ~has_image
    /\ conversations # <<>>
    /\ conversations' =
           [j \in 1..Len(conversations) |->
               [from |-> conversations[j].from,
                value |-> CollapseNewlines(Strip(conversations[j].value))]]
    /\ d_pc' = "processed"
    /\ UNCHANGED <<has_image, d_ctx_len, d_input_ids, d_labels, d_raised>>
    /\ UNCHANGED <<asmVars, cfgVars, fwdVars, queueVars, genVars, kernelVars,
                   freezeVars>>

\* process_image_tokens_in_conversations(conversations), which __getitem__
\* calls for a sample with 'image' (line 160)
process_image_tokens_in_conversations ==
    /\ d_pc = "raw"
    /\ has_image
    /\ conversations # <<>>
    /\ conversations' =
           [j \in 1..Len(conversations) |->
               [from |-> conversations[j].from,
                value |-> ProcessValue(conversations[j].value)]]
    /\ d_pc' = "processed"
    /\ UNCHANGED <<has_image, d_ctx_len, d_input_ids, d_labels, d_raised>>
    /\ UNCHANGED <<asmVars, cfgVars, fwdVars, queueVars, genVars, kernelVars,
                   freezeVars>>

\* preprocess(conversations, tokenizer, has_image, ctx_len)
preprocess ==
    /\ d_pc = "processed"
    /\ conversations' = add_speaker_and_signal(conversations)
    /\ IF UnknownAt(conversations) # {}
       THEN /\ d_raised' = "ValueError"
            /\ d_pc' = "raised"
            /\ UNCHANGED <<d_input_ids, d_labels>>
       ELSE \E res \in {preprocess_result(conversations', has_image,
                                          d_ctx_len)} :
            /\ d_input_ids' = res[1]
            /\ d_labels' = res[2]
            /\ d_pc' = "done"
            /\ UNCHANGED d_raised
    /\ UNCHANGED <<has_image, d_ctx_len>>
    /\ UNCHANGED <<asmVars, cfgVars, fwdVars, queueVars, genVars, kernelVars,
                   freezeVars>>

\* a conversation as the dataset reads it, and a window
DataInit ==
    /\ AsmIdle
    /\ CfgIdle
    /\ FwdIdle
    /\ QueueIdle
    /\ GenIdle
    /\ KernelIdle
    /\ FreezeIdle
    /\ \E n \in 1..MaxTurns :
           conversations \in [1..n -> [from : Speakers,
                                       value : TextsUpTo(MaxTurnLen)]]
    /\ has_image \in BOOLEAN
    /\ d_ctx_len \in DataCtxLens
    /\ d_pc = "raw"
    /\ d_input_ids = <<>>
    /\ d_labels = <<>>
    /\ d_raised = "none"

DataNext ==
    \/ process_tokens_in_conversations
    \/ process_image_tokens_in_conversations
    \/ preprocess

SpecData == DataInit /\ [][DataNext]_vars

\* ----------------------------------------------------------------------
\* C20: For every conversation, whatever the number of turns and of image
\* tags in a turn, the input_ids that process_image_tokens_in_conversations
\* followed by preprocess (has_image true) produce hold at most one image
\* placeholder id.
\* ----------------------------------------------------------------------
NumPlaceholders(ids) ==
    Cardinality({j \in 1..Len(ids) : ids[j] = IMAGE_TOKEN_INDEX})

C20_AtMostOnePlaceholder ==
    (d_pc = "done" /\ has_image) => NumPlaceholders(d_input_ids) <= 1

\* ----------------------------------------------------------------------
\* C21: in v5.1 grid_pooling with grid_size g >= 2, on one summary feature
\* and S*S grid features with S >= g, the result is g*g pooled features
\* followed by the summary feature, g*g + 1 features in all.
\* ----------------------------------------------------------------------
C21_GridPoolingCount ==
    (ScanDone /\ grid_size >= 2 /\ vit_grid >= grid_size) =>
        \E gp \in {grid_pooling(vit_grid, grid_size)} :
            /\ gp.raised = "none"
            /\ Len(gp.feats) = grid_size * grid_size + 1
            /\ gp.feats[Len(gp.feats)] = {0}
            /\ fwd_raised = "none" => n_feat = grid_size * grid_size + 1

\* ----------------------------------------------------------------------
\* bidirectional_forward and multidirectional_forward, block by block
\* ----------------------------------------------------------------------
\* the end of the span within a sequence of n positions
SpanEnd(n) == Min(img_end, n)

InSpan(n, p) == p > img_start /\ p <= SpanEnd(n)

\* the position (from 1) whose vector a reversed span shows at position p
Mirror(n, p) == IF InSpan(n, p) THEN img_start + SpanEnd(n) + 1 - p ELSE p

\* C22: in bidirectional_forward, block i is given the span
\* [img_start, img_end) in reversed order exactly when i is odd, and every
\* other position where it was; after the block the span is back in its
\* order: position p of what the block loop holds is what the block returned
\* for the vector that stood at position p before, for every block and so
\* for every number of layers, and positions outside the span never move.
C22_BidirectionRestoresOrder ==
    [][InLoop("bidirection") =>
         /\ Len(blk_in') = Len(x_fwd) /\ Len(x_fwd') = Len(x_fwd)
         /\ \A b \in 1..Len(x_fwd) :
               /\ Len(blk_in'[b]) = Len(x_fwd[b])
               /\ Len(x_fwd'[b]) = Len(x_fwd[b])
               /\ \A p \in 1..Len(x_fwd[b]) :
                     \E q \in {IF li % 2 = 1 THEN Mirror(Len(x_fwd[b]), p)
                                             ELSE p} :
                        /\ blk_in'[b][p] = x_fwd[b][q]
                        /\ x_fwd'[b][p] = <<"blk", li, b - 1, q - 1>>]_vars

\* block 1 was given the reverse of what block 0 returned for a span of two
\* positions or more, and the loop holds its outputs in the order of the input
C22_Witness ==
    /\ image_scanning = "bidirection"
    /\ pc = "trunk"
    /\ li = 2
    /\ SpanLen >= 2
    /\ img_end <= Len(x_fwd[1])
    /\ blk_in[1][img_start + 1] = <<"blk", 0, 0, img_end - 1>>
    /\ x_fwd[1][img_start + 1] = <<"blk", 1, 0, img_end - 1>>

\* the position within an H x H span that position j shows after a
\* transposition, and after a reversal
TIdx(H, j) == ((j - 1) % H) * H + ((j - 1) \div H) + 1
FIdx(H, j) == H * H + 1 - j

\* the scan order of block i: entry j is the span position whose vector the
\* block is given at span position j (transposed first, then reversed)
BlockScanOrder(i, H) ==
    [j \in 1..(H * H) |->
        IF i % 4 \in {2, 3}
        THEN TIdx(H, IF i % 2 = 1 THEN FIdx(H, j) ELSE j)
        ELSE IF i % 2 = 1 THEN FIdx(H, j) ELSE j]

\* the whole span lies within every sequence and is an H x H square
SquareSpan(H) ==
    /\ img_start >= 0
    /\ H * H = img_end - img_start
    /\ \A b \in 1..Len(x_fwd) : img_end <= Len(x_fwd[b])

FourOrdersDiffer(H) ==
    \A i, k \in 0..3 : i # k => BlockScanOrder(i, H) # BlockScanOrder(k, H)

\* C23 (as stated): in multidirectional_forward on a square span, a run of
\* four consecutive blocks sees four different scan orders.
C23_FourDifferentOrders ==
    (image_scanning = "multidirection" /\ pc = "trunk"
        /\ SquareSpan(IntSqrt(Max(SpanLen, 0)))) =>
        FourOrdersDiffer(IntSqrt(Max(SpanLen, 0)))

\* C23 (amended): in multidirectional_forward on a square span of side H,
\* block i is given the span transposed exactly when i mod 4 is 2 or 3 and
\* reversed exactly when i is odd (transposed first, then reversed), every
\* other position where it was, and after the block the span is back in its
\* order: position p holds what the block returned for the vector that stood
\* at p before.  The four scan orders of four consecutive blocks differ from
\* each other when H >= 2; a span of side 0 or 1 has one order only.
C23_MultidirectionRestoresOrder ==
    /\ [][(InLoop("multidirection")
            /\ SquareSpan(IntSqrt(Max(SpanLen, 0)))) =>
           \E H \in {IntSqrt(Max(SpanLen, 0))} :
           \E order \in {BlockScanOrder(li, H)} :
              /\ fwd_raised' = "none"
              /\ Len(blk_in') = Len(x_fwd) /\ Len(x_fwd') = Len(x_fwd)
              /\ \A b \in 1..Len(x_fwd) :
                    /\ Len(blk_in'[b]) = Len(x_fwd[b])
                    /\ Len(x_fwd'[b]) = Len(x_fwd[b])
                    /\ \A p \in 1..Len(x_fwd[b]) :
                          IF p > img_start /\ p <= img_end
                          THEN /\ blk_in'[b][p] =
                                    x_fwd[b][img_start + order[p - img_start]]
                               /\ \E j \in 1..(H * H) :
                                     /\ order[j] = p - img_start
                                     /\ x_fwd'[b][p] =
                                          <<"blk", li, b - 1, img_start + j - 1>>
                          ELSE /\ blk_in'[b][p] = x_fwd[b][p]
                               /\ x_fwd'[b][p] = <<"blk", li, b - 1, p - 1>>]_vars
    /\ [](image_scanning = "multidirection" =>
            \A H \in 0..MaxGrid : FourOrdersDiffer(H) <=> H >= 2)

\* block 3 was given the 2 x 2 span transposed and reversed (block 2 had
\* left its results in the order of its input), and its results are back in
\* that order
C23_Witness ==
    /\ image_scanning = "multidirection"
    /\ pc = "trunk"
    /\ li = 4
    /\ SpanLen = 4
    /\ SquareSpan(2)
    /\ blk_in[1][img_start + 1] = <<"blk", 2, 0, img_start + 3>>
    /\ x_fwd[1][img_start + 1] = <<"blk", 3, 0, img_start + 3>>
    /\ x_fwd[1][img_start + 2] = <<"blk", 3, 0, img_start + 1>>

\* ----------------------------------------------------------------------
\* The three scan orders, as the walks they are meant to be
\* ----------------------------------------------------------------------
\* the cell ahead of (r, c) when heading right (0), down (1), left (2), up (3)
AheadRow(r, dir) == IF dir = 1 THEN r + 1 ELSE IF dir = 3 THEN r - 1 ELSE r
AheadCol(c, dir) == IF dir = 0 THEN c + 1 ELSE IF dir = 2 THEN c - 1 ELSE c

CanEnter(N, r, c, seen) ==
    /\ r >= 0 /\ r < N /\ c >= 0 /\ c < N
    /\ \A j \in 1..Len(seen) : seen[j] # r * N + c

\* the clockwise inward walk: straight on while the cell ahead is in the grid
\* and new, else one turn to the right
RECURSIVE SpiralWalk(_, _, _, _, _)
SpiralWalk(N, r, c, dir, seen) ==
    IF Len(seen) = N * N THEN seen
    ELSE IF CanEnter(N, AheadRow(r, dir), AheadCol(c, dir), seen)
         THEN SpiralWalk(N, AheadRow(r, dir), AheadCol(c, dir), dir,
                         Append(seen, AheadRow(r, dir) * N + AheadCol(c, dir)))
         ELSE SpiralWalk(N, r, c, (dir + 1) % 4, seen)

SpiralRef(N) == IF N = 0 THEN <<>> ELSE SpiralWalk(N, 0, 0, 0, <<0>>)

\* rows top to bottom, even rows left to right, odd rows right to left
SnakeRef(N) ==
    [k \in 1..(N * N) |->
        LET r == (k - 1) \div N
            c == (k - 1) % N
        IN  r * N + (IF r % 2 = 0 THEN c ELSE N - 1 - c)]

\* the place of cell (r, c) in the zigzag: the cells of the anti-diagonals
\* before its own, then its place on its anti-diagonal d = r + c, which is
\* walked towards the top right when d is even and towards the bottom left
\* when d is odd
ZigzagRank(N, r, c) ==
    LET d == r + c
        before == {cell \in (0..(N - 1)) \X (0..(N - 1)) : cell[1] + cell[2] < d}
        rmin == Max(0, d - (N - 1))
        rmax == Min(d, N - 1)
    IN  Cardinality(before) + (IF d % 2 = 0 THEN rmax - r ELSE r - rmin)

ZigzagRef(N) ==
    [k \in 1..(N * N) |->
        CHOOSE idx \in 0..(N * N - 1) :
            ZigzagRank(N, idx \div N, idx % N) = k - 1]

\* C24: for the grid side N of the model, get_spiral_scan_order(N) lists the
\* row-major indices along the clockwise inward spiral from the top-left
\* cell (for N = 3: 0 1 2 5 8 7 6 3 4), get_snake_scan_order(N) lists the
\* rows top to bottom, even rows left to right and odd rows right to left,
\* and get_zigzag_scan_order(N) lists the anti-diagonals in order with
\* alternating direction from cell 0; the registered order is the one of the
\* mode for N, whatever else the model is configured with.
C24_ScanOrdersAreTheNamedWalks ==
    Constructed =>
        /\ get_spiral_scan_order(vit_grid) = SpiralRef(vit_grid)
        /\ get_snake_scan_order(vit_grid) = SnakeRef(vit_grid)
        /\ get_zigzag_scan_order(vit_grid) = ZigzagRef(vit_grid)
        /\ get_spiral_scan_order(3) = <<0, 1, 2, 5, 8, 7, 6, 3, 4>>
        /\ scan_order = (CASE image_scanning = "spiral" -> SpiralRef(vit_grid)
                           [] image_scanning = "snake" -> SnakeRef(vit_grid)
                           [] image_scanning = "zigzag" -> ZigzagRef(vit_grid))

\* a model of grid side 3 registered the zigzag order, one of grid side 4 the
\* snake order
C24_Witness ==
    /\ Constructed
    /\ \/ /\ vit_grid = 3
          /\ image_scanning = "zigzag"
          /\ scan_order = <<0, 1, 3, 6, 4, 2, 5, 7, 8>>
       \/ /\ vit_grid = 4
          /\ image_scanning = "snake"
          /\ scan_order = <<0, 1, 2, 3, 7, 6, 5, 4, 8, 9, 10, 11, 15, 14, 13, 12>>

\* ======================================================================
\* freeze_rwkv (v5.1 lines 370-386, v5.1_old lines 363-379, the same code)
\* ======================================================================
\* self.rwkv.requires_grad_(False) reaches every parameter of the trunk;
\* the loop sets the blocks, the last test the embedding
freeze_rwkv(num_layers_to_freeze) ==
    /\ Len(fr_calls) < MaxFreezeCalls
    /\ rg_blocks' = [i \in 1..n_layer |-> ~(i - 1 < num_layers_to_freeze)]
    /\ rg_emb' = (num_layers_to_freeze = 0)
    /\ rg_ln_out' = IF num_layers_to_freeze = n_layer THEN FALSE ELSE rg_ln_out
    /\ rg_head' = IF num_layers_to_freeze = n_layer THEN FALSE ELSE rg_head
    /\ fr_calls' = Append(fr_calls, num_layers_to_freeze)
    /\ UNCHANGED <<asmVars, cfgVars, fwdVars, queueVars, genVars, kernelVars,
                   dataVars>>

\* a model as constructed: every parameter of the trunk requires a gradient
FreezeInit ==
    /\ AsmIdle
    /\ FwdIdle
    /\ QueueIdle
    /\ GenIdle
    /\ KernelIdle
    /\ DataIdle
    /\ image_scanning = "unidirection"
    /\ grid_size = -1
    /\ vit_grid = 0
    /\ n_layer \in 1..MaxLayer
    /\ rg_emb = TRUE
    /\ rg_blocks = [i \in 1..n_layer |-> TRUE]
    /\ rg_ln_out = TRUE
    /\ rg_head = TRUE
    /\ fr_calls = <<>>

FreezeNext == \E k \in 0..MaxLayer : k <= n_layer /\ freeze_rwkv(k)

SpecFreeze == FreezeInit /\ [][FreezeNext]_vars

\* ----------------------------------------------------------------------
\* C25: after any sequence of freeze_rwkv calls that ends with
\* freeze_rwkv(k), 0 <= k <= n_layer, the trainable state depends on k only:
\* blocks below k are frozen, blocks from k on are trainable, the embedding
\* is trainable exactly when k = 0, and the output normalization and the
\* head are frozen exactly when k = n_layer.
\* ----------------------------------------------------------------------
LastFreeze == fr_calls[Len(fr_calls)]

C25_TrainableStateDependsOnLastCall ==
    fr_calls # <<>> =>
        /\ \A i \in 1..n_layer : rg_blocks[i] = (i - 1 >= LastFreeze)
        /\ rg_emb = (LastFreeze = 0)
        /\ rg_ln_out = (LastFreeze # n_layer)
        /\ rg_head = (LastFreeze # n_layer)

\* ----------------------------------------------------------------------
\* C26: for every conversation whose speakers _add_speaker_and_signal
\* accepts ('human' and 'gpt' in any letter case), preprocess sets the
\* target of every token of every human turn to IGNORE_INDEX and leaves the
\* target of every token of every gpt turn equal to its token id.
\* ----------------------------------------------------------------------
\* the tokens of the rewritten sentences, before pad_to_max_len
TurnLens ==
    [k \in 1..Len(conversations) |->
        Len(Tokenize(conversations[k].value, has_image))]

\* how many leading tokens pad_to_max_len dropped
DroppedTokens ==
    LET total == CurIdx(TurnLens, Len(conversations) + 1)
    IN  IF d_ctx_len = 0 THEN 0 ELSE Max(total - d_ctx_len, 0)

C26_HumanTurnsMasked ==
    d_pc = "done" =>
        \A k \in 1..Len(conversations) :
            \A j \in (CurIdx(TurnLens, k) + 1)..(CurIdx(TurnLens, k) + TurnLens[k]) :
                j > DroppedTokens =>
                    IF Lower(conversations[k].from) = "human"
                    THEN d_labels[j - DroppedTokens] = IGNORE_INDEX
                    ELSE d_labels[j - DroppedTokens] = d_input_ids[j - DroppedTokens]

\* ----------------------------------------------------------------------
\* C27: every ContrastiveAlignment.forward call with a batch of B <=
\* queue_size samples completes, for every value p of the write pointer,
\* those with p + B > queue_size included, and stores the B (text, vision)
\* pairs of the batch at slots p, p+1, ..., p+B-1 modulo queue_size, text
\* and vision of one sample in one slot.
\* ----------------------------------------------------------------------
SlotShaped(text, vision) ==
    /\ \A b \in 1..Len(text) : Len(text[b]) = TextMaxLen
    /\ \A b \in 1..Len(vision) : Len(vision[b]) = VisionMaxLen

C27_BatchStoredModuloQueue ==
    [][(/\ n_calls' = n_calls + 1
        /\ reduction \in {"mean", "weighted"}
        /\ SlotShaped(cl_text', cl_vision')
        /\ Len(cl_text') <= queue_size) =>
          /\ cl_raised' = "none"
          /\ \A b \in 1..Len(cl_text') :
                \E slot \in {((queue_ptr + b - 1) % queue_size) + 1} :
                   /\ text_queue'[slot] = MaskedText(cl_text', cl_masks')[b]
                   /\ vision_queue'[slot] = cl_vision'[b]]_vars

\* ----------------------------------------------------------------------
\* C28: in every ContrastiveAlignment.forward call the cached negatives of
\* the loss are the contents of the queues as they were before the write of
\* this call: no embedding of the batch is among the negatives of its own
\* loss, and the batch is among the negatives of the calls that follow.
\* ----------------------------------------------------------------------
\* the embeddings that came with call c
OfCall(vec, c) == vec[1] \in {"txt", "vis"} /\ vec[2] = c

C28_NegativesAreTheCacheBeforeTheWrite ==
    [][(n_calls' = n_calls + 1 /\ cl_raised' = "none") =>
          /\ cl_loss'.negatives.text = text_queue
          /\ cl_loss'.negatives.vision = vision_queue
          /\ \A i \in 1..queue_size :
                /\ \A t \in 1..Len(text_queue[i]) :
                      ~OfCall(cl_loss'.negatives.text[i][t], n_calls)
                /\ \A v \in 1..Len(vision_queue[i]) :
                      ~OfCall(cl_loss'.negatives.vision[i][v], n_calls)
          /\ \A b \in 1..Len(cl_text') :
                \E i \in 1..queue_size :
                   /\ text_queue'[i] = MaskedText(cl_text', cl_masks')[b]
                   /\ vision_queue'[i] = cl_vision'[b]]_vars

\* the second call had the first batch among its negatives, and not its own
C28_Witness ==
    /\ n_calls = 2
    /\ cl_raised = "none"
    /\ \E i \in 1..queue_size :
          /\ cl_loss.negatives.vision[i] = <<VisVec(0, 0, 0)>>
          /\ cl_loss.negatives.text[i][1] = TextVec(0, 0, 0)
    /\ \E i \in 1..queue_size : vision_queue[i] = <<VisVec(1, 0, 0)>>

\* ----------------------------------------------------------------------
\* C29: whenever a reordering policy reads or writes the positions
\* [img_start, img_end) in a training forward, after truncation, those
\* positions exist in every sample and hold that sample's non-summary image
\* features: truncation neither shifts nor cuts the span.
\* ----------------------------------------------------------------------
ReorderingModes == {"bidirection", "multidirection", "rotation"}

C29_SpanHoldsImageFeatures ==
    (pc = "trunk" /\ li = 0 /\ image_scanning \in ReorderingModes) =>
        /\ 0 <= img_start
        /\ \A b \in 1..Len(x_fwd) :
              /\ img_end <= Len(x_fwd[b])
              /\ SpanLen = Len(image_features[b]) - 1
              /\ \A j \in 1..SpanLen :
                    x_fwd[b][img_start + j] = image_features[b][j]

\* ----------------------------------------------------------------------
\* C30: for each of the seven image_scanning modes that forward supports,
\* generate computes its logits with the forward variant of the mode, so
\* that a greedy generation whose prompt was assembled never stops for want
\* of logits.
\* ----------------------------------------------------------------------
C30_GenerateCoversTrainingModes ==
    (/\ gen_ver = "v5.1"
     /\ image_scanning \in TrunkModes \cup StaticModes
     /\ gen_pc \in {"raised", "returned"}
     /\ raised = "none"
     /\ ~do_sample) =>
        gen_raised # "UnboundLocalError"

====
